---- MODULE Spec2Model ----
(***************************************************************************)
(* A model of the long-gate API gateway: the route table and its matcher,  *)
(* the upstream model with its load balancers and health checker, and the  *)
(* configuration watcher's registry.                                       *)
(*                                                                         *)
(* Strings that the code inspects character by character (request paths,   *)
(* path patterns) are sequences of one-character strings; strings that the *)
(* code only compares are TLA+ strings.                                    *)
(***************************************************************************)
EXTENDS Integers, Sequences, FiniteSets, TLC

VARIABLES
    table,        \* Router.routes: the published *RouteTable (sequential view)
    firstOrder,   \* history: ids in the table, in order of first insertion
    recentOrder,  \* history: ids in the table, in order of latest upsert
    lastOp,       \* history: the last Router operation, its argument and result
    balTargets,   \* Upstream.Targets of the upstream the balancers select from
    rrCurrent,    \* RoundRobinBalancer.current (uint32, as two 16-bit halves)
    wbCurrent,    \* WeightedBalancer.current
    sel,          \* the Select call in progress, or the last one and its result
    selCount,     \* number of Select calls made
    connTargets,  \* Upstream.Targets of the upstream the requests count on
    mu,           \* Upstream.mu: the set of requests that hold the lock
    cpc,          \* per request: where it is between its increment and decrement
    caddr,        \* per request: target.Address of the target selected for it
    ctmp,         \* per request: the target found and the counter value read
    peak,         \* history: the highest active_conns any target has had
    hcTargets,    \* Upstream.Targets of the upstream the health checker probes
    hcCheck,      \* Upstream.HealthCheck of that upstream
    streak,       \* history, per target: its current run of equal probe outcomes
    registry,     \* ConfigWatcher.upstreams: the map object and its entries
    wpc,          \* the upstream watch loop: idle, or inside a map write
    rpc,          \* per request goroutine: idle, inside GetUpstream, or its result
    events,       \* number of upstream events the watcher has taken
    heap,         \* the RouteTable objects allocated so far, by address
    published,    \* Router.routes (atomic.Value): the address it holds
    rmu,          \* Router.mu: the set of its holders
    wr,           \* per writer goroutine: its operation, position and locals
    rd,           \* per reader goroutine: the address it loaded, and what it saw there
    dUp,          \* the upstream the requests are dispatched to: its policy and targets
    dReq,         \* the request in proxyHandler: its position, its balancer, its target
    dLog,         \* history: the remote address and the target of every request served
    gwRoutes,     \* Gateway.router: the published route table
    gwUpstreams,  \* Gateway.watcher.upstreams: the registry map
    gwChecked,    \* Gateway.healthChecker.upstreams: the ids registered for probing
    gwWatch,      \* the upstream watch loop: idle, or inside a registry write
    gwReq,        \* the request in ServeHTTP: its position and, at the end, its response
    gwHist,       \* history: whether Start has run, the key behind every route, the last event
    mTable,       \* the route table Match reads
    mReq,         \* the request the server has read, as net/http hands it over
    mOut,         \* what Router.Match returned for it
    cChain,       \* Chain.middlewares of the chain under test
    cCtx,         \* the request's Context: its method and its aborted flag
    cHandler,     \* the handler Then returned, once it has been called
    cStack,       \* the calls in progress, outermost first
    cPanic,       \* whether a panic is travelling up the stack
    cLog,         \* history: what ran, in order
    sStore,       \* what etcd holds under the two prefixes when Start runs
    sTable,       \* Router.routes of the watcher's router
    sRegistry,    \* ConfigWatcher.upstreams
    sStart,       \* where Start is, and the error it returned
    pHeap,        \* the Upstream objects decoded so far, by address
    pReg,         \* ConfigWatcher.upstreams[u1]: the address of its Upstream object, 0 when absent
    pChecked,     \* HealthChecker.upstreams[u1]: the address registered, 0 when none
    pDown,        \* history: the targets set unhealthy and not set healthy by the checker since
    pSel,         \* the last selection made for u1
    pEvents,      \* number of put events handled
    wtTargets,    \* Upstream.Targets of the upstream one WeightedBalancer selects from
    wtCurrent,    \* that WeightedBalancer's current
    wtLog,        \* history: current and the target returned, per Select
    wtPanic,      \* whether a Select has panicked
    hpCheck,      \* Upstream.HealthCheck of the one registered upstream: interval and timeout, in seconds
    hpNow,        \* the clock, in seconds since the health checker started
    hpPending,    \* whether the ticker's channel holds a tick
    hpLoop,       \* where runHealthCheckLoop is: waiting, or at a target of the sweep
    hpLastCheckAt, \* per target: Target.LastCheckAt
    hpStarts,     \* history, per target: the times its probes started
    evChan,       \* the watch channel of the route prefix
    evLoop,       \* where watchRoutes is
    evTable,      \* the route table
    evHist,       \* history: the route events sent and how many are applied
    wlCtx,        \* the watcher's context: live or cancelled
    wlLoop,       \* where each watch loop is
    wlChan,       \* each loop's watch channel
    wlTable,      \* the route table the route loop writes
    wlReg,        \* the upstream map the upstream loop writes
    wlHist,       \* history: the events sent and applied, the loops at Stop
    tmReq,        \* the request in the Timeout decorator: the decorator, its goroutine, its timer
    tmLog,        \* the requests the decorator has returned from
    tmCrashed,    \* the process has died of a panic no one recovered
    fdMu,         \* who holds the upstream's mutex
    fdPc,         \* where each request handler is
    fdHc,         \* where the health checker's goroutine is
    fdTarget,     \* the runtime fields of the target
    fdWrites,     \* history: the writes to the runtime fields, and whether the writer held the mutex
    uvIn,         \* the upstream Validate is called on
    uvOut,        \* Validate's error and the upstream as it leaves it
    miStore,      \* what etcd holds under /gateway/routes/, key by key
    miPc,         \* where the watcher is: new, loaded, watching
    miQueue,      \* the events of the watch not yet applied
    miTable,      \* the route table
    miHist,       \* history: the number of store changes, and whether one fell between the load and the watch
    lgCfg,        \* the paths of the routes in the current configuration file
    lgRoutes,     \* rm.routes: the paths with an entry
    lgReaders,    \* the goroutines that hold rm.mu for reading
    lgWriter,     \* the goroutine that holds rm.mu for writing
    lgPc,         \* where each goroutine is, the path it asked for and the table it built
    swReg,        \* hc.upstreams: the Upstream object registered under each id
    swLoop,       \* where runHealthCheckLoop is, the upstreams it has still to go over, the number of the sweep
    swWg,         \* the counter of the sweep's WaitGroup
    swWorkers     \* the goroutines of checkUpstream that are running

routerVars == <<table, firstOrder, recentOrder, lastOp>>

balVars == <<balTargets, rrCurrent, wbCurrent, sel, selCount>>

connVars == <<connTargets, mu, cpc, caddr, ctmp, peak>>

healthVars == <<hcTargets, hcCheck, streak>>

regVars == <<registry, wpc, rpc, events>>

concVars == <<heap, published, rmu, wr, rd>>

dispVars == <<dUp, dReq, dLog>>

gwVars == <<gwRoutes, gwUpstreams, gwChecked, gwWatch, gwReq, gwHist>>

matchVars == <<mTable, mReq, mOut>>

chainVars == <<cChain, cCtx, cHandler, cStack, cPanic, cLog>>

startVars == <<sStore, sTable, sRegistry, sStart>>

repubVars == <<pHeap, pReg, pChecked, pDown, pSel, pEvents>>

weightedVars == <<wtTargets, wtCurrent, wtLog, wtPanic>>

probeVars == <<hpCheck, hpNow, hpPending, hpLoop, hpLastCheckAt, hpStarts>>

eventVars == <<evChan, evLoop, evTable, evHist>>

loopVars == <<wlCtx, wlLoop, wlChan, wlTable, wlReg, wlHist>>

timeoutVars == <<tmReq, tmLog, tmCrashed>>

fieldVars == <<fdMu, fdPc, fdHc, fdTarget, fdWrites>>

uvalVars == <<uvIn, uvOut>>

mirrorVars == <<miStore, miPc, miQueue, miTable, miHist>>

legacyVars == <<lgCfg, lgRoutes, lgReaders, lgWriter, lgPc>>

sweepVars == <<swReg, swLoop, swWg, swWorkers>>

vars == <<routerVars, balVars, connVars, healthVars, regVars, concVars, dispVars, gwVars, matchVars, chainVars, startVars, repubVars, weightedVars, probeVars, eventVars, loopVars, timeoutVars, fieldVars, uvalVars, mirrorVars, legacyVars, sweepVars>>

notRouter == <<balVars, connVars, healthVars, regVars, concVars, dispVars, gwVars, matchVars, chainVars, startVars, repubVars, weightedVars, probeVars, eventVars, loopVars, timeoutVars, fieldVars, uvalVars, mirrorVars, legacyVars, sweepVars>>

notBalancer == <<routerVars, connVars, healthVars, regVars, concVars, dispVars, gwVars, matchVars, chainVars, startVars, repubVars, weightedVars, probeVars, eventVars, loopVars, timeoutVars, fieldVars, uvalVars, mirrorVars, legacyVars, sweepVars>>

notConns == <<routerVars, balVars, healthVars, regVars, concVars, dispVars, gwVars, matchVars, chainVars, startVars, repubVars, weightedVars, probeVars, eventVars, loopVars, timeoutVars, fieldVars, uvalVars, mirrorVars, legacyVars, sweepVars>>

notHealth == <<routerVars, balVars, connVars, regVars, concVars, dispVars, gwVars, matchVars, chainVars, startVars, repubVars, weightedVars, probeVars, eventVars, loopVars, timeoutVars, fieldVars, uvalVars, mirrorVars, legacyVars, sweepVars>>

notRegistry == <<routerVars, balVars, connVars, healthVars, concVars, dispVars, gwVars, matchVars, chainVars, startVars, repubVars, weightedVars, probeVars, eventVars, loopVars, timeoutVars, fieldVars, uvalVars, mirrorVars, legacyVars, sweepVars>>

notRouterConc == <<routerVars, balVars, connVars, healthVars, regVars, dispVars, gwVars, matchVars, chainVars, startVars, repubVars, weightedVars, probeVars, eventVars, loopVars, timeoutVars, fieldVars, uvalVars, mirrorVars, legacyVars, sweepVars>>

notDispatch == <<routerVars, balVars, connVars, healthVars, regVars, concVars, gwVars, matchVars, chainVars, startVars, repubVars, weightedVars, probeVars, eventVars, loopVars, timeoutVars, fieldVars, uvalVars, mirrorVars, legacyVars, sweepVars>>

notGateway == <<routerVars, balVars, connVars, healthVars, regVars, concVars, dispVars, matchVars, chainVars, startVars, repubVars, weightedVars, probeVars, eventVars, loopVars, timeoutVars, fieldVars, uvalVars, mirrorVars, legacyVars, sweepVars>>

notMatch == <<routerVars, balVars, connVars, healthVars, regVars, concVars, dispVars, gwVars, chainVars, startVars, repubVars, weightedVars, probeVars, eventVars, loopVars, timeoutVars, fieldVars, uvalVars, mirrorVars, legacyVars, sweepVars>>

notChain == <<routerVars, balVars, connVars, healthVars, regVars, concVars, dispVars, gwVars, matchVars, startVars, repubVars, weightedVars, probeVars, eventVars, loopVars, timeoutVars, fieldVars, uvalVars, mirrorVars, legacyVars, sweepVars>>

notStart == <<routerVars, balVars, connVars, healthVars, regVars, concVars, dispVars, gwVars, matchVars, chainVars, repubVars, weightedVars, probeVars, eventVars, loopVars, timeoutVars, fieldVars, uvalVars, mirrorVars, legacyVars, sweepVars>>

notRepub == <<routerVars, balVars, connVars, healthVars, regVars, concVars, dispVars, gwVars, matchVars, chainVars, startVars, weightedVars, probeVars, eventVars, loopVars, timeoutVars, fieldVars, uvalVars, mirrorVars, legacyVars, sweepVars>>

notWeighted == <<routerVars, balVars, connVars, healthVars, regVars, concVars, dispVars, gwVars, matchVars, chainVars, startVars, repubVars, probeVars, eventVars, loopVars, timeoutVars, fieldVars, uvalVars, mirrorVars, legacyVars, sweepVars>>

notProbe == <<routerVars, balVars, connVars, healthVars, regVars, concVars, dispVars, gwVars, matchVars, chainVars, startVars, repubVars, weightedVars, eventVars, loopVars, timeoutVars, fieldVars, uvalVars, mirrorVars, legacyVars, sweepVars>>

notEvents == <<routerVars, balVars, connVars, healthVars, regVars, concVars, dispVars, gwVars, matchVars, chainVars, startVars, repubVars, weightedVars, probeVars, loopVars, timeoutVars, fieldVars, uvalVars, mirrorVars, legacyVars, sweepVars>>

notLoops == <<routerVars, balVars, connVars, healthVars, regVars, concVars, dispVars, gwVars, matchVars, chainVars, startVars, repubVars, weightedVars, probeVars, eventVars, timeoutVars, fieldVars, uvalVars, mirrorVars, legacyVars, sweepVars>>

notTimeout == <<routerVars, balVars, connVars, healthVars, regVars, concVars, dispVars, gwVars, matchVars, chainVars, startVars, repubVars, weightedVars, probeVars, eventVars, loopVars, fieldVars, uvalVars, mirrorVars, legacyVars, sweepVars>>

notFields == <<routerVars, balVars, connVars, healthVars, regVars, concVars, dispVars, gwVars, matchVars, chainVars, startVars, repubVars, weightedVars, probeVars, eventVars, loopVars, timeoutVars, uvalVars, mirrorVars, legacyVars, sweepVars>>

notUValidate == <<routerVars, balVars, connVars, healthVars, regVars, concVars, dispVars, gwVars, matchVars, chainVars, startVars, repubVars, weightedVars, probeVars, eventVars, loopVars, timeoutVars, fieldVars, mirrorVars, legacyVars, sweepVars>>

notMirror == <<routerVars, balVars, connVars, healthVars, regVars, concVars, dispVars, gwVars, matchVars, chainVars, startVars, repubVars, weightedVars, probeVars, eventVars, loopVars, timeoutVars, fieldVars, uvalVars, legacyVars, sweepVars>>

notLegacy == <<routerVars, balVars, connVars, healthVars, regVars, concVars, dispVars, gwVars, matchVars, chainVars, startVars, repubVars, weightedVars, probeVars, eventVars, loopVars, timeoutVars, fieldVars, uvalVars, mirrorVars, sweepVars>>

notSweep == <<routerVars, balVars, connVars, healthVars, regVars, concVars, dispVars, gwVars, matchVars, chainVars, startVars, repubVars, weightedVars, probeVars, eventVars, loopVars, timeoutVars, fieldVars, uvalVars, mirrorVars, legacyVars>>

(***************************************************************************)
(* Bounds                                                                  *)
(***************************************************************************)
\* longest list handed to LoadRoutes
MaxLoad == 2

\* number of Select calls in one behaviour
MaxSelects == 3

\* number of requests that count their connection on one upstream
NumConnReqs == 2

\* fail_count is not probed beyond this value
MaxFailCount == 4

\* the length of a run of equal probe outcomes is counted up to this value
StreakCap == 3

\* number of upstream events the watcher handles in one behaviour
MaxEvents == 3

\* number of request goroutines that look an upstream up
NumLookups == 2

\* number of goroutines that write the route table, one operation each
NumWriters == 2

\* number of goroutines that read the route table
NumReaders == 1

\* number of requests the gateway dispatches to one upstream
MaxDispatch == 3

\* number of watch events the gateway's watcher handles
MaxWatchEvents == 3

(***************************************************************************)
(* Generic helpers                                                         *)
(***************************************************************************)
Range(s) == { s[i] : i \in 1..Len(s) }

\* strings.HasPrefix
HasPrefix(s, p) == Len(p) <= Len(s) /\ SubSeq(s, 1, Len(p)) = p

HasSuffix(s, p) == Len(p) <= Len(s) /\ SubSeq(s, Len(s) - Len(p) + 1, Len(s)) = p

Contains(s, p) == \E i \in 0..(Len(s) - Len(p)) : SubSeq(s, i + 1, i + Len(p)) = p

\* strings.ToUpper on the method names of the model
ToUpper(m) ==
    CASE m = "get"  -> "GET"
      [] m = "post" -> "POST"
      [] m = "foo"  -> "FOO"
      [] OTHER      -> m

SeqsUpTo(S, n) == UNION { [1..k -> S] : k \in 0..n }

RECURSIVE RemoveAll(_, _)
RemoveAll(s, x) ==
    IF s = <<>> THEN <<>>
    ELSE IF s[1] = x THEN RemoveAll(Tail(s), x)
         ELSE <<s[1]>> \o RemoveAll(Tail(s), x)

\* position of the first occurrence of x in s, 0 when absent
IndexOf(s, x) ==
    IF \E i \in 1..Len(s) : s[i] = x
    THEN CHOOSE i \in 1..Len(s) : s[i] = x /\ \A j \in 1..(i - 1) : s[j] # x
    ELSE 0

(***************************************************************************)
(* regexp: the patterns of the model are literals with an optional leading *)
(* "^" and trailing "$"; a pattern with an unclosed "(" does not compile.  *)
(***************************************************************************)
RegexCompiles(p) == "(" \notin Range(p)

RegexMatchString(p, s) ==
    LET anchS == Len(p) > 0 /\ p[1] = "^"
        anchE == Len(p) > 0 /\ p[Len(p)] = "$"
        lo    == IF anchS THEN 2 ELSE 1
        hi    == IF anchE THEN Len(p) - 1 ELSE Len(p)
        lit   == SubSeq(p, lo, hi)
    IN  CASE anchS /\ anchE   -> s = lit
          [] anchS /\ ~anchE  -> HasPrefix(s, lit)
          [] ~anchS /\ anchE  -> HasSuffix(s, lit)
          [] OTHER            -> Contains(s, lit)

(***************************************************************************)
(* Routes (route.go)                                                       *)
(***************************************************************************)
RouteStatusDisabled == 0
RouteStatusEnabled == 1

PathTypePrefix == "prefix"
PathTypeExact == "exact"
PathTypeRegex == "regex"

NilRoute == [nil |-> TRUE]
NilPredicates == [nil |-> TRUE]
NilRegex == [nil |-> TRUE]
NoError == "nil"

EmptyMap == [k \in {} |-> ""]

ValidMethods == {"GET", "POST", "PUT", "DELETE", "PATCH", "HEAD", "OPTIONS"}

\* Route.Validate: the error, and the route as Validate leaves it (it
\* stores the compiled regex in the route it validates)
ValidateErr(r) ==
    IF r.ID = "" THEN "route id cannot be empty"
    ELSE IF r.Predicates = NilPredicates THEN "route predicates cannot be nil"
    ELSE IF r.Predicates.Path = <<>> THEN "route path cannot be empty"
    ELSE IF r.UpstreamID = "" THEN "upstream_id cannot be empty"
    ELSE IF r.Predicates.PathType = PathTypeRegex /\ ~RegexCompiles(r.Predicates.Path)
         THEN "invalid path regex"
    ELSE IF \E i \in 1..Len(r.Predicates.Methods) :
                ToUpper(r.Predicates.Methods[i]) \notin ValidMethods
         THEN "invalid http method"
    ELSE NoError

Validated(r) ==
    IF /\ r.ID # ""
       /\ r.Predicates # NilPredicates
       /\ r.Predicates.Path # <<>>
       /\ r.UpstreamID # ""
       /\ r.Predicates.PathType = PathTypeRegex
       /\ RegexCompiles(r.Predicates.Path)
    THEN [r EXCEPT !.Predicates.PathRegex = [pattern |-> r.Predicates.Path]]
    ELSE r

matchPath(r, path) ==
    CASE r.Predicates.PathType = PathTypeExact -> path = r.Predicates.Path
      [] r.Predicates.PathType = PathTypeRegex ->
            IF r.Predicates.PathRegex = NilRegex THEN FALSE
            ELSE RegexMatchString(r.Predicates.PathRegex.pattern, path)
      [] OTHER -> HasPrefix(path, r.Predicates.Path)

matchMethod(r, method) ==
    IF Len(r.Predicates.Methods) = 0 THEN TRUE
    ELSE \E i \in 1..Len(r.Predicates.Methods) :
            ToUpper(r.Predicates.Methods[i]) = ToUpper(method)

matchHost(r, host) ==
    IF Len(r.Predicates.Hosts) = 0 THEN TRUE
    ELSE \E i \in 1..Len(r.Predicates.Hosts) :
            r.Predicates.Hosts[i] = host \/ r.Predicates.Hosts[i] = "*"

matchHeaders(r, headers) ==
    IF DOMAIN r.Predicates.Headers = {} THEN TRUE
    ELSE \A key \in DOMAIN r.Predicates.Headers :
            key \in DOMAIN headers /\ headers[key] = r.Predicates.Headers[key]

\* Route.Match
RouteMatch(r, path, method, host, headers) ==
    IF r.Status # RouteStatusEnabled THEN FALSE
    ELSE IF ~matchPath(r, path) THEN FALSE
    ELSE IF ~matchMethod(r, method) THEN FALSE
    ELSE IF ~matchHost(r, host) THEN FALSE
    ELSE IF ~matchHeaders(r, headers) THEN FALSE
    ELSE TRUE

(***************************************************************************)
(* Route table (Router)                                                    *)
(***************************************************************************)
\* the comparison handed to sort.Slice
Less(a, b) == a.Priority > b.Priority

IsSortedByPriority(s) == \A i \in 1..(Len(s) - 1) : ~Less(s[i + 1], s[i])

\* sort.Slice sorts short slices by insertion sort; for longer ones the
\* library only promises a sorted permutation
GoInsertionSortMax == 6

RECURSIVE InsertLeft(_, _)
InsertLeft(s, x) ==
    IF s = <<>> \/ ~Less(x, s[Len(s)]) THEN Append(s, x)
    ELSE Append(InsertLeft(SubSeq(s, 1, Len(s) - 1), x), s[Len(s)])

RECURSIVE InsertionSort(_)
InsertionSort(s) ==
    IF s = <<>> THEN <<>>
    ELSE InsertLeft(InsertionSort(SubSeq(s, 1, Len(s) - 1)), s[Len(s)])

SortSlice(s) ==
    IF Len(s) <= GoInsertionSortMax THEN { InsertionSort(s) }
    ELSE { [i \in 1..Len(s) |-> s[p[i]]] :
             p \in { q \in [1..Len(s) -> 1..Len(s)] :
                       /\ \A i, j \in 1..Len(s) : i # j => q[i] # q[j]
                       /\ IsSortedByPriority([i \in 1..Len(s) |-> s[q[i]]]) } }

\* indexMap[route.ID] = route, in list order: a later entry overwrites
BuildIndex(routes) ==
    [id \in { routes[i].ID : i \in 1..Len(routes) } |->
        routes[CHOOSE i \in 1..Len(routes) :
                  /\ routes[i].ID = id
                  /\ \A j \in (i + 1)..Len(routes) : routes[j].ID # id]]

NewRouteTable(routes) == [routes |-> routes, indexMap |-> BuildIndex(routes)]

\* NewRouter
EmptyTable == NewRouteTable(<<>>)

\* LoadRoutes without its Validate filter
FilterValid_KeepAll(rs) ==
    [i \in 1..Len(rs) |-> Validated(rs[i])]

RECURSIVE FilterValid(_)
FilterValid(rs) ==
    IF rs = <<>> THEN <<>>
    ELSE IF ValidateErr(rs[1]) # NoError THEN FilterValid(Tail(rs))
         ELSE <<Validated(rs[1])>> \o FilterValid(Tail(rs))

\* the tables LoadRoutes may publish
LoadRoutesResult(rs) ==
    { NewRouteTable(sorted) : sorted \in SortSlice(FilterValid(rs)) }

\* the replace-or-append loop of AddRoute
ReplaceOrAppend(old, route) ==
    LET replaced == \E i \in 1..Len(old) : old[i].ID = route.ID
        swapped  == [i \in 1..Len(old) |->
                        IF old[i].ID = route.ID THEN route ELSE old[i]]
    IN  IF replaced THEN swapped ELSE Append(swapped, route)

\* AddRoute without its re-sort
AddRouteResult_NoSort(old, route) ==
    { NewRouteTable(ReplaceOrAppend(old.routes, route)) }

\* the tables AddRoute may publish for a route that validated
AddRouteResult(old, route) ==
    { NewRouteTable(sorted) : sorted \in SortSlice(ReplaceOrAppend(old.routes, route)) }

\* a delete loop that stops at the first entry it drops
OmitID_First(rs, routeID) ==
    IF IndexOf([i \in 1..Len(rs) |-> rs[i].ID], routeID) = 0 THEN rs
    ELSE LET k == IndexOf([i \in 1..Len(rs) |-> rs[i].ID], routeID)
         IN  SubSeq(rs, 1, k - 1) \o SubSeq(rs, k + 1, Len(rs))

RECURSIVE OmitID(_, _)
OmitID(rs, routeID) ==
    IF rs = <<>> THEN <<>>
    ELSE IF rs[1].ID # routeID THEN <<rs[1]>> \o OmitID(Tail(rs), routeID)
         ELSE OmitID(Tail(rs), routeID)

\* DeleteRoute without a new index
DeleteRouteResult_OldIndex(old, routeID) ==
    [routes |-> OmitID(old.routes, routeID), indexMap |-> old.indexMap]

DeleteRouteResult(old, routeID) == NewRouteTable(OmitID(old.routes, routeID))

\* extractHeaders: the first value of every header that has one
extractHeaders(req) ==
    [key \in { k \in DOMAIN req.Header : Len(req.Header[k]) > 0 } |-> req.Header[key][1]]

\* Router.Match on a loaded table: the first route of the list that matches
MatchIn(t, req) ==
    LET hit(i) == RouteMatch(t.routes[i], req.Path, req.Method, req.Host, extractHeaders(req))
    IN  IF \E i \in 1..Len(t.routes) : hit(i)
        THEN t.routes[CHOOSE i \in 1..Len(t.routes) :
                         hit(i) /\ \A j \in 1..(i - 1) : ~hit(j)]
        ELSE NilRoute

\* Router.GetRoute
GetRouteIn(t, id) == IF id \in DOMAIN t.indexMap THEN t.indexMap[id] ELSE NilRoute

\* Router.ListRoutes
ListRoutesIn(t) == [i \in 1..Len(t.routes) |-> t.routes[i]]

(***************************************************************************)
(* Inputs of the route-table operations                                    *)
(***************************************************************************)
P_a == <<"/", "a">>
P_ax == <<"/", "a", "/", "x">>
P_ab == <<"/", "a", "b">>
RX_a == <<"^", "/", "a", "$">>
RX_bad == <<"(">>

Pred(path, pathType) ==
    [Path |-> path, PathType |-> pathType, PathRegex |-> NilRegex,
     Methods |-> <<>>, Hosts |-> <<>>, Headers |-> EmptyMap]

\* predicates that validate
GoodPredicates ==
    { Pred(P_a, PathTypePrefix), Pred(P_ax, ""), Pred(P_a, PathTypeExact),
      Pred(RX_a, PathTypeRegex),
      [Pred(P_a, PathTypePrefix) EXCEPT !.Methods = <<"POST", "get">>,
                                        !.Hosts = <<"h2", "h1">>,
                                        !.Headers = [k \in {"X-Key"} |-> "s"]] }

RouteIDs == {"r1", "r2"}
Priorities == {1, 2}

MkRoute(id, prio, status, preds, up) ==
    [ID |-> id, Priority |-> prio, Status |-> status, Predicates |-> preds, UpstreamID |-> up]

GoodRoutes ==
    { MkRoute(id, prio, RouteStatusEnabled, pr, "u1") :
        id \in RouteIDs, prio \in Priorities, pr \in GoodPredicates }
    \cup
    { MkRoute(id, 2, RouteStatusDisabled, Pred(P_a, PathTypePrefix), "u1") : id \in RouteIDs }

\* routes that Validate rejects, one per check
BadRoutes ==
    { MkRoute("", 1, RouteStatusEnabled, Pred(P_a, PathTypePrefix), "u1"),
      MkRoute("r1", 1, RouteStatusEnabled, NilPredicates, "u1"),
      MkRoute("r1", 1, RouteStatusEnabled, Pred(<<>>, PathTypePrefix), "u1"),
      MkRoute("r1", 1, RouteStatusEnabled, Pred(P_a, PathTypePrefix), ""),
      MkRoute("r1", 1, RouteStatusEnabled, Pred(RX_bad, PathTypeRegex), "u1"),
      MkRoute("r1", 1, RouteStatusEnabled,
              [Pred(P_a, PathTypePrefix) EXCEPT !.Methods = <<"foo">>], "u1") }

RouteInputs == GoodRoutes \cup BadRoutes

\* what LoadRoutes is handed: lists that may repeat an id, tie on priority
\* and contain a route that does not validate
LoadInputs ==
    { MkRoute("r1", 1, RouteStatusEnabled, Pred(P_a, PathTypePrefix), "u1"),
      MkRoute("r1", 2, RouteStatusEnabled, Pred(P_ax, PathTypePrefix), "u1"),
      MkRoute("r2", 1, RouteStatusEnabled,
              [Pred(P_a, PathTypeExact) EXCEPT !.Hosts = <<"*">>], "u1"),
      MkRoute("r2", 2, RouteStatusEnabled, Pred(RX_a, PathTypeRegex), "u1"),
      MkRoute("r1", 1, RouteStatusEnabled, Pred(RX_bad, PathTypeRegex), "u1") }

MkRequest(path, method, host, header) ==
    [Path |-> path, Method |-> method, Host |-> host, Header |-> header]

\* requests that differ in the path, and requests for one path that differ
\* in the method, the host or the values of the header
Requests ==
    { MkRequest(p, "GET", "h1", [k \in {"X-Key"} |-> <<"s", "t">>]) : p \in {P_a, P_ax, P_ab} }
    \cup
    { MkRequest(P_a, "PUT", "h1", [k \in {"X-Key"} |-> <<"s">>]),
      MkRequest(P_a, "post", "h3", [k \in {"X-Key"} |-> <<"s">>]),
      MkRequest(P_a, "GET", "h2", [k \in {"X-Key"} |-> <<"t", "s">>]),
      MkRequest(P_a, "GET", "h2", [k \in {"X-Key"} |-> <<>>]) }

IDsOf(routes) == { routes[i].ID : i \in 1..Len(routes) }

\* the ids of a list, each once, in order of first occurrence
RECURSIVE DistinctIDs(_)
DistinctIDs(routes) ==
    IF routes = <<>> THEN <<>>
    ELSE LET front == DistinctIDs(SubSeq(routes, 1, Len(routes) - 1))
             id    == routes[Len(routes)].ID
         IN  IF id \in Range(front) THEN front ELSE Append(front, id)

(***************************************************************************)
(* The route table, one operation at a time                                *)
(***************************************************************************)
RouterInit ==
    /\ table = EmptyTable
    /\ firstOrder = <<>>
    /\ recentOrder = <<>>
    /\ lastOp = [op |-> "NewRouter"]

\* the route table left alone
RouterOff == RouterInit

LoadRoutes ==
    \E rs \in SeqsUpTo(LoadInputs, MaxLoad) :
    \E t \in LoadRoutesResult(rs) :
        /\ table' = t
        /\ firstOrder' = DistinctIDs(t.routes)
        /\ recentOrder' = DistinctIDs(t.routes)
        /\ lastOp' = [op |-> "LoadRoutes", err |-> NoError]
        /\ UNCHANGED notRouter

\* AddRoute that validates only after it has published
AddRoute_ValidateLast ==
    \E route \in RouteInputs :
    \E t \in AddRouteResult(table, route) :
        /\ table' = t
        /\ firstOrder' = IF route.ID \in IDsOf(table.routes) THEN firstOrder
                         ELSE Append(firstOrder, route.ID)
        /\ recentOrder' = Append(RemoveAll(recentOrder, route.ID), route.ID)
        /\ lastOp' = [op |-> "AddRoute", route |-> route, err |-> ValidateErr(route),
                      before |-> table]
        /\ UNCHANGED notRouter

AddRoute ==
    \E route \in RouteInputs :
        IF ValidateErr(route) # NoError
        THEN /\ lastOp' = [op |-> "AddRoute", route |-> route, err |-> ValidateErr(route),
                           before |-> table]
             /\ UNCHANGED <<table, firstOrder, recentOrder>>
             /\ UNCHANGED notRouter
        ELSE \E t \in AddRouteResult(table, Validated(route)) :
             /\ table' = t
             /\ firstOrder' = IF route.ID \in IDsOf(table.routes) THEN firstOrder
                              ELSE Append(firstOrder, route.ID)
             /\ recentOrder' = Append(RemoveAll(recentOrder, route.ID), route.ID)
             /\ lastOp' = [op |-> "AddRoute", route |-> Validated(route), err |-> NoError]
             /\ UNCHANGED notRouter

DeleteRoute ==
    \E routeID \in RouteIDs \cup {"r9"} :
        /\ table' = DeleteRouteResult(table, routeID)
        /\ firstOrder' = RemoveAll(firstOrder, routeID)
        /\ recentOrder' = RemoveAll(recentOrder, routeID)
        /\ lastOp' = [op |-> "DeleteRoute", id |-> routeID, err |-> NoError,
                      found |-> routeID \in IDsOf(table.routes)]
        /\ UNCHANGED notRouter

Match ==
    \E req \in Requests :
        /\ lastOp' = [op |-> "Match", req |-> req, route |-> MatchIn(table, req)]
        /\ UNCHANGED <<table, firstOrder, recentOrder>>
        /\ UNCHANGED notRouter

GetRoute ==
    \E id \in RouteIDs \cup {"r9"} :
        /\ lastOp' = [op |-> "GetRoute", id |-> id, route |-> GetRouteIn(table, id)]
        /\ UNCHANGED <<table, firstOrder, recentOrder>>
        /\ UNCHANGED notRouter

ListRoutes ==
    /\ lastOp' = [op |-> "ListRoutes", routes |-> ListRoutesIn(table)]
    /\ UNCHANGED <<table, firstOrder, recentOrder>>
    /\ UNCHANGED notRouter

RouterNext ==
    \/ LoadRoutes
    \/ AddRoute
    \/ DeleteRoute
    \/ Match
    \/ GetRoute
    \/ ListRoutes

(***************************************************************************)
(* Properties of the route table                                           *)
(***************************************************************************)
NoDuplicateIDs(t) ==
    \A i, j \in 1..Len(t.routes) : i # j => t.routes[i].ID # t.routes[j].ID

\* all predicates of r hold for the request and r is enabled
Holds(r, req) ==
    /\ r.Status = RouteStatusEnabled
    /\ matchPath(r, req.Path)
    /\ matchMethod(r, req.Method)
    /\ matchHost(r, req.Host)
    /\ matchHeaders(r, extractHeaders(req))

\* C1: Match returns a route only if it is in the snapshot, enabled, with all
\* its predicates holding, and no enabled route of the snapshot whose
\* predicates hold has a strictly greater priority; it returns none exactly
\* when no enabled route of the snapshot has all its predicates holding.
C1_MatchHighestPriority ==
    lastOp.op = "Match" =>
        LET res == lastOp.route
            req == lastOp.req
            all == Range(table.routes)
        IN  /\ res # NilRoute =>
                 /\ res \in all
                 /\ Holds(res, req)
                 /\ \A r \in all : Holds(r, req) => r.Priority <= res.Priority
            /\ res = NilRoute <=> ~ \E r \in all : Holds(r, req)

\* a Match that had to prefer one matching route over a lower-priority one
\* listed among routes that do not match
C1_Witness ==
    /\ lastOp.op = "Match"
    /\ lastOp.route # NilRoute
    /\ \E r \in Range(table.routes) :
          Holds(r, lastOp.req) /\ r.Priority < lastOp.route.Priority
    /\ Len(table.routes) >= 2

\* C2: routes of equal priority appear in the snapshot in the order in which
\* their ids were first inserted, so of two equal-priority routes that match
\* a request, Match returns the one inserted earlier.
C2_TiesInInsertionOrder ==
    NoDuplicateIDs(table) =>
        /\ \A i, j \in 1..Len(table.routes) :
              (i < j /\ table.routes[i].Priority = table.routes[j].Priority)
                 => IndexOf(firstOrder, table.routes[i].ID)
                      < IndexOf(firstOrder, table.routes[j].ID)
        /\ (lastOp.op = "Match" /\ lastOp.route # NilRoute) =>
              \A r \in Range(table.routes) :
                 (Holds(r, lastOp.req) /\ r.Priority = lastOp.route.Priority)
                    => IndexOf(firstOrder, lastOp.route.ID) <= IndexOf(firstOrder, r.ID)

\* C3: routes of equal priority appear in the snapshot in the order of their
\* most recent upsert.
C3_TiesInLatestUpsertOrder ==
    NoDuplicateIDs(table) =>
        \A i, j \in 1..Len(table.routes) :
           (i < j /\ table.routes[i].Priority = table.routes[j].Priority)
              => IndexOf(recentOrder, table.routes[i].ID)
                   < IndexOf(recentOrder, table.routes[j].ID)

\* C7: after a successful AddRoute(r), GetRoute(r.ID) is r and ListRoutes
\* contains r; after DeleteRoute(id), GetRoute(id) is none and no route with
\* that id is listed or returned by Match.
C7_UpsertThenGet_DeleteThenNone ==
    /\ (lastOp.op = "AddRoute" /\ lastOp.err = NoError) =>
          /\ GetRouteIn(table, lastOp.route.ID) = lastOp.route
          /\ lastOp.route \in Range(ListRoutesIn(table))
    /\ lastOp.op = "DeleteRoute" =>
          /\ GetRouteIn(table, lastOp.id) = NilRoute
          /\ \A r \in Range(ListRoutesIn(table)) : r.ID # lastOp.id
          /\ \A req \in Requests :
                MatchIn(table, req) = NilRoute \/ MatchIn(table, req).ID # lastOp.id

\* a delete that removed the two entries one id had after LoadRoutes
C7_Witness ==
    /\ lastOp.op = "DeleteRoute"
    /\ lastOp.found
    /\ Len(table.routes) = 0
    /\ firstOrder = <<>>

\* what Validate requires of a route
ValidRoute(r) ==
    /\ r.ID # ""
    /\ r.Predicates # NilPredicates
    /\ r.Predicates.Path # <<>>
    /\ r.UpstreamID # ""
    /\ r.Predicates.PathType = PathTypeRegex
       => /\ r.Predicates.PathRegex # NilRegex
          /\ r.Predicates.PathRegex.pattern = r.Predicates.Path
          /\ RegexCompiles(r.Predicates.Path)
    /\ \A i \in 1..Len(r.Predicates.Methods) :
          ToUpper(r.Predicates.Methods[i]) \in ValidMethods

\* C17: every route of every published table has a nonempty id, predicates
\* with a nonempty path, a nonempty upstream_id, its regex compiled when its
\* path_type is regex, and only recognized methods.
C17_OnlyValidRoutesPublished ==
    \A i \in 1..Len(table.routes) : ValidRoute(table.routes[i])

\* AddRoute has just turned an invalid route away from a table that holds a
\* regex route and another route
C17_Witness ==
    /\ lastOp.op = "AddRoute"
    /\ lastOp.err # NoError
    /\ Len(table.routes) >= 2
    /\ \E i \in 1..Len(table.routes) : table.routes[i].Predicates.PathType = PathTypeRegex

\* C26: AddRoute with a route that fails validation returns a validation
\* error and leaves the published table as it was, routes and index.
C26_InvalidAddRouteLeavesTable ==
    (lastOp.op = "AddRoute" /\ ValidateErr(lastOp.route) # NoError)
    => /\ lastOp.err = ValidateErr(lastOp.route)
       /\ table.routes = lastOp.before.routes
       /\ table.indexMap = lastOp.before.indexMap

\* AddRoute has turned away an invalid route whose id the table holds
C26_Witness ==
    /\ lastOp.op = "AddRoute"
    /\ lastOp.err # NoError
    /\ lastOp.route.ID \in DOMAIN table.indexMap
    /\ Len(table.routes) >= 2

\* the index maps exactly the ids of the listed routes, each to a route of
\* the list that carries the id
IndexMatchesList(t) ==
    /\ DOMAIN t.indexMap = { t.routes[i].ID : i \in 1..Len(t.routes) }
    /\ \A id \in DOMAIN t.indexMap :
          /\ t.indexMap[id].ID = id
          /\ \E i \in 1..Len(t.routes) : t.routes[i] = t.indexMap[id]

\* C27: every published table lists its routes in non-increasing priority
\* order and its index maps exactly the ids of the listed routes to routes
\* of the list.
C27_SortedAndIndexed ==
    /\ \A i \in 1..(Len(table.routes) - 1) :
          table.routes[i].Priority >= table.routes[i + 1].Priority
    /\ IndexMatchesList(table)

\* a table of routes of different priorities, built by LoadRoutes, AddRoute
\* and DeleteRoute in turn
C27_Witness ==
    /\ lastOp.op = "DeleteRoute"
    /\ lastOp.found
    /\ Len(table.routes) >= 2
    /\ table.routes[1].Priority > table.routes[Len(table.routes)].Priority
    /\ Len(firstOrder) < Len(table.routes)

\* C37: no published table lists two routes with the same id, so that the
\* route GetRoute returns for an id is the one entry of the list with that
\* id, the entry Match goes by; after any sequence of LoadRoutes (lists with a
\* repeated id included), AddRoute and DeleteRoute.
C37_OneEntryPerID ==
    /\ \A i, j \in 1..Len(table.routes) :
          i # j => table.routes[i].ID # table.routes[j].ID
    /\ \A i \in 1..Len(table.routes) :
          GetRouteIn(table, table.routes[i].ID) = table.routes[i]

(***************************************************************************)
(* Upstream targets and the load balancers (upstream.go, balancer)         *)
(***************************************************************************)
TargetStatusHealthy == "healthy"
TargetStatusUnhealthy == "unhealthy"
TargetStatusUnknown == "unknown"

LoadBalanceRoundRobin == "round-robin"
LoadBalanceWeighted == "weighted"
LoadBalanceLeastConn == "least-conn"
LoadBalanceIPHash == "ip-hash"
LoadBalanceRandom == "random"

Policies ==
    { LoadBalanceRoundRobin, LoadBalanceWeighted, LoadBalanceLeastConn,
      LoadBalanceIPHash, LoadBalanceRandom }

ErrNoHealthyTarget == "no healthy target available"

MkTarget(address, weight, status, conns) ==
    [Address |-> address, Weight |-> weight, Status |-> status,
     FailCount |-> 0, ActiveConns |-> conns]

\* a uint32 is kept as its two 16-bit halves
U32(hi, lo) == [hi |-> hi, lo |-> lo]

\* atomic.AddUint32(&x, 1): wraps at 2^32
AddUint32(x) ==
    IF x.lo < 65535 THEN U32(x.hi, x.lo + 1)
    ELSE IF x.hi < 65535 THEN U32(x.hi + 1, 0)
    ELSE U32(0, 0)

\* x % n of a uint32 x (and of int(x) where int is 64 bits wide, which keeps
\* the value of every uint32)
ModU32(x, n) == (((x.hi % n) * (65536 % n)) + (x.lo % n)) % n

\* crc32.ChecksumIEEE of the client addresses of the model
ChecksumIEEE(clientIP) ==
    CASE clientIP = "1.2.3.4"      -> U32(14668, 32869)
      [] clientIP = "192.168.1.1"  -> U32(34885, 62303)
      [] clientIP = "1.2.3.4:5000" -> U32(64573, 2942)
      [] clientIP = "1.2.3.4:5001" -> U32(35642, 15336)
      [] clientIP = "1.2.3.4:5004" -> U32(64336, 53095)
      [] clientIP = "192.168.1.1:80" -> U32(47420, 23399)

ClientIPs == {"1.2.3.4", "192.168.1.1", "1.2.3.4:5000"}

\* a healthy-set filter that only leaves out the targets known to be down
GetHealthyTargets_NotUnhealthy(ts) ==
    SelectSeq([i \in 1..Len(ts) |-> i], LAMBDA i : ts[i].Status # TargetStatusUnhealthy)

\* Upstream.GetHealthyTargets: the healthy targets, in list order, as
\* positions in Targets (the code returns pointers to the targets)
GetHealthyTargets(ts) ==
    SelectSeq([i \in 1..Len(ts) |-> i], LAMBDA i : ts[i].Status = TargetStatusHealthy)

\* Upstream.UpdateTargetStatus: the first target with the address
UpdateTargetStatusIn(ts, address, status) ==
    LET k == IndexOf([i \in 1..Len(ts) |-> ts[i].Address], address)
    IN  IF k = 0 THEN ts ELSE [ts EXCEPT ![k].Status = status]

RECURSIVE SumWeights(_, _)
SumWeights(ts, healthy) ==
    IF healthy = <<>> THEN 0
    ELSE ts[healthy[1]].Weight + SumWeights(ts, Tail(healthy))

\* the scan of WeightedBalancer.Select: the first target whose cumulative
\* weight exceeds current, targets[0] when there is none
WeightedPick(ts, healthy, current) ==
    LET cum(k) == SumWeights(ts, SubSeq(healthy, 1, k))
    IN  IF \E k \in 1..Len(healthy) : current < cum(k)
        THEN healthy[CHOOSE k \in 1..Len(healthy) :
                        current < cum(k) /\ \A j \in 1..(k - 1) : ~(current < cum(j))]
        ELSE healthy[1]

\* the scan of LeastConnBalancer.Select: minimum ActiveConns, first wins
LeastConnPick(ts, healthy) ==
    healthy[CHOOSE k \in 1..Len(healthy) :
               /\ \A j \in 1..Len(healthy) :
                     ts[healthy[k]].ActiveConns <= ts[healthy[j]].ActiveConns
               /\ \A j \in 1..(k - 1) :
                     ts[healthy[j]].ActiveConns > ts[healthy[k]].ActiveConns]

\* the upstreams the balancers are tried on: validated target lists
TargetLists ==
    { <<MkTarget("a1", 1, st1, 0)>> :
        st1 \in {TargetStatusHealthy, TargetStatusUnknown} }
    \cup
    { <<MkTarget("a1", 2, st1, c1), MkTarget("a2", 1, st2, 0)>> :
        st1 \in {TargetStatusHealthy, TargetStatusUnknown, TargetStatusUnhealthy},
        st2 \in {TargetStatusHealthy, TargetStatusUnknown},
        c1 \in {0, 1} }

BalancerInit ==
    /\ balTargets \in TargetLists
    /\ rrCurrent \in {U32(0, 0), U32(65535, 65534)}
    /\ wbCurrent = 0
    /\ sel = [pc |-> "idle"]
    /\ selCount = 0

\* the balancers left alone
BalancerOff ==
    /\ balTargets = <<>>
    /\ rrCurrent = U32(0, 0)
    /\ wbCurrent = 0
    /\ sel = [pc |-> "idle"]
    /\ selCount = 0

\* Select, first half: the healthy set is computed, and an empty one ends
\* the call with ErrNoHealthyTarget
SelectHealthy ==
    /\ sel.pc \in {"idle", "done"}
    /\ selCount < MaxSelects
    /\ \E policy \in Policies, clientIP \in ClientIPs :
          /\ policy # LoadBalanceIPHash => clientIP = "1.2.3.4"
          /\ LET healthy == GetHealthyTargets(balTargets)
             IN  sel' = IF Len(healthy) = 0
                        THEN [pc |-> "done", policy |-> policy, clientIP |-> clientIP,
                              seen |-> balTargets, err |-> ErrNoHealthyTarget]
                        ELSE [pc |-> "healthy", policy |-> policy, clientIP |-> clientIP,
                              seen |-> balTargets, healthy |-> healthy]
    /\ selCount' = selCount + 1
    /\ UNCHANGED <<balTargets, rrCurrent, wbCurrent>>
    /\ UNCHANGED notBalancer

Done(k) ==
    [pc |-> "done", policy |-> sel.policy, clientIP |-> sel.clientIP,
     seen |-> sel.seen, err |-> NoError, target |-> k]

SelectRoundRobin ==
    /\ sel.pc = "healthy" /\ sel.policy = LoadBalanceRoundRobin
    /\ rrCurrent' = AddUint32(rrCurrent)
    /\ sel' = Done(sel.healthy[ModU32(rrCurrent', Len(sel.healthy)) + 1])
    /\ UNCHANGED <<balTargets, wbCurrent, selCount>>
    /\ UNCHANGED notBalancer

SelectWeighted ==
    /\ sel.pc = "healthy" /\ sel.policy = LoadBalanceWeighted
    /\ wbCurrent' = (wbCurrent + 1) % SumWeights(balTargets, sel.healthy)
    /\ sel' = Done(WeightedPick(balTargets, sel.healthy, wbCurrent'))
    /\ UNCHANGED <<balTargets, rrCurrent, selCount>>
    /\ UNCHANGED notBalancer

SelectLeastConn ==
    /\ sel.pc = "healthy" /\ sel.policy = LoadBalanceLeastConn
    /\ sel' = Done(LeastConnPick(balTargets, sel.healthy))
    /\ UNCHANGED <<balTargets, rrCurrent, wbCurrent, selCount>>
    /\ UNCHANGED notBalancer

SelectIPHash ==
    /\ sel.pc = "healthy" /\ sel.policy = LoadBalanceIPHash
    /\ sel' = Done(sel.healthy[ModU32(ChecksumIEEE(sel.clientIP), Len(sel.healthy)) + 1])
    /\ UNCHANGED <<balTargets, rrCurrent, wbCurrent, selCount>>
    /\ UNCHANGED notBalancer

SelectRandom ==
    /\ sel.pc = "healthy" /\ sel.policy = LoadBalanceRandom
    /\ \E idx \in 0..(Len(sel.healthy) - 1) : sel' = Done(sel.healthy[idx + 1])
    /\ UNCHANGED <<balTargets, rrCurrent, wbCurrent, selCount>>
    /\ UNCHANGED notBalancer

\* WeightedBalancer.UpdateTargets
WeightedUpdateTargets ==
    /\ wbCurrent # 0
    /\ wbCurrent' = 0
    /\ UNCHANGED <<balTargets, rrCurrent, sel, selCount>>
    /\ UNCHANGED notBalancer

\* the health checker's status write, at any moment of a Select
UpdateTargetStatus ==
    /\ \E k \in 1..Len(balTargets),
          status \in {TargetStatusHealthy, TargetStatusUnhealthy} :
          /\ balTargets[k].Status # status
          /\ balTargets' = UpdateTargetStatusIn(balTargets, balTargets[k].Address, status)
    /\ UNCHANGED <<rrCurrent, wbCurrent, sel, selCount>>
    /\ UNCHANGED notBalancer

BalancerNext ==
    \/ SelectHealthy
    \/ SelectRoundRobin
    \/ SelectWeighted
    \/ SelectLeastConn
    \/ SelectIPHash
    \/ SelectRandom
    \/ WeightedUpdateTargets
    \/ UpdateTargetStatus

\* C4: every Select ends with a target whose status was healthy when the
\* call computed the healthy set, or with ErrNoHealthyTarget; with the error
\* exactly when that healthy set was empty.
C4_SelectOnlyHealthy ==
    sel.pc = "done" =>
        LET wasHealthy == { k \in 1..Len(sel.seen) : sel.seen[k].Status = TargetStatusHealthy }
        IN  /\ sel.err \in {NoError, ErrNoHealthyTarget}
            /\ sel.err = ErrNoHealthyTarget <=> wasHealthy = {}
            /\ sel.err = NoError => sel.target \in wasHealthy

\* a weighted Select that returned a target which has turned unhealthy
\* since the healthy set was computed, while another target is unknown
C4_Witness ==
    /\ sel.pc = "done"
    /\ sel.policy = LoadBalanceWeighted
    /\ sel.err = NoError
    /\ balTargets[sel.target].Status = TargetStatusUnhealthy
    /\ \E k \in 1..Len(balTargets) : sel.seen[k].Status = TargetStatusUnknown

(***************************************************************************)
(* active_conns: IncrementActiveConns / DecrementActiveConns pairs of      *)
(* concurrent requests on one upstream (upstream.go, proxyHandler)         *)
(***************************************************************************)
ConnReqs == 1..NumConnReqs

NoTarget == 0

\* u.mu.Lock() without waiting for the holder
LockFree_NoWait(holder) == TRUE

\* u.mu.Lock() can be taken when nobody holds the mutex
LockFree(holder) == holder = {}

\* the target IncrementActiveConns counts on: the first with the address
IncTarget(ts, address) == IndexOf([i \in 1..Len(ts) |-> ts[i].Address], address)

\* the target DecrementActiveConns counts on: the first with the address
\* and a positive counter
DecTarget(ts, address) ==
    IF \E k \in 1..Len(ts) : ts[k].Address = address /\ ts[k].ActiveConns > 0
    THEN CHOOSE k \in 1..Len(ts) :
            /\ ts[k].Address = address /\ ts[k].ActiveConns > 0
            /\ \A j \in 1..(k - 1) : ~(ts[j].Address = address /\ ts[j].ActiveConns > 0)
    ELSE NoTarget

ConnTargetLists ==
    { <<MkTarget("a1", 1, TargetStatusHealthy, 0)>>,
      <<MkTarget("a1", 1, TargetStatusHealthy, 0), MkTarget("a2", 1, TargetStatusHealthy, 0)>>,
      <<MkTarget("a1", 1, TargetStatusHealthy, 0), MkTarget("a1", 2, TargetStatusHealthy, 0)>> }

ConnsInit ==
    /\ connTargets \in ConnTargetLists
    /\ mu = {}
    /\ cpc = [r \in ConnReqs |-> "start"]
    /\ caddr = [r \in ConnReqs |-> ""]
    /\ ctmp = [r \in ConnReqs |-> [k |-> NoTarget, v |-> 0]]
    /\ peak = 0

\* the counters left alone
ConnsOff ==
    /\ connTargets = <<>>
    /\ mu = {}
    /\ cpc = <<>>
    /\ caddr = <<>>
    /\ ctmp = <<>>
    /\ peak = 0

\* upstream.IncrementActiveConns(target.Address): take the lock
IncLock(r) ==
    /\ cpc[r] = "start"
    /\ LockFree(mu)
    /\ \E k \in 1..Len(connTargets) : caddr' = [caddr EXCEPT ![r] = connTargets[k].Address]
    /\ mu' = mu \cup {r}
    /\ cpc' = [cpc EXCEPT ![r] = "inc_find"]
    /\ UNCHANGED <<connTargets, ctmp, peak>>
    /\ UNCHANGED notConns

\* the loop finds the target and reads its counter
IncFind(r) ==
    /\ cpc[r] = "inc_find"
    /\ LET k == IncTarget(connTargets, caddr[r])
       IN  ctmp' = [ctmp EXCEPT ![r] =
                      [k |-> k, v |-> IF k = NoTarget THEN 0 ELSE connTargets[k].ActiveConns]]
    /\ cpc' = [cpc EXCEPT ![r] = "inc_write"]
    /\ UNCHANGED <<connTargets, mu, caddr, peak>>
    /\ UNCHANGED notConns

\* target.ActiveConns++, then the deferred Unlock
IncWrite(r) ==
    /\ cpc[r] = "inc_write"
    /\ connTargets' = IF ctmp[r].k = NoTarget THEN connTargets
                      ELSE [connTargets EXCEPT ![ctmp[r].k].ActiveConns = ctmp[r].v + 1]
    /\ peak' = IF ctmp[r].k # NoTarget /\ ctmp[r].v + 1 > peak THEN ctmp[r].v + 1 ELSE peak
    /\ mu' = mu \ {r}
    /\ cpc' = [cpc EXCEPT ![r] = "proxy"]
    /\ UNCHANGED <<caddr, ctmp>>
    /\ UNCHANGED notConns

\* proxy.ServeHTTP returns and the deferred DecrementActiveConns takes the lock
DecLock(r) ==
    /\ cpc[r] = "proxy"
    /\ LockFree(mu)
    /\ mu' = mu \cup {r}
    /\ cpc' = [cpc EXCEPT ![r] = "dec_find"]
    /\ UNCHANGED <<connTargets, caddr, ctmp, peak>>
    /\ UNCHANGED notConns

DecFind(r) ==
    /\ cpc[r] = "dec_find"
    /\ LET k == DecTarget(connTargets, caddr[r])
       IN  ctmp' = [ctmp EXCEPT ![r] =
                      [k |-> k, v |-> IF k = NoTarget THEN 0 ELSE connTargets[k].ActiveConns]]
    /\ cpc' = [cpc EXCEPT ![r] = "dec_write"]
    /\ UNCHANGED <<connTargets, mu, caddr, peak>>
    /\ UNCHANGED notConns

\* target.ActiveConns--, then the deferred Unlock
DecWrite(r) ==
    /\ cpc[r] = "dec_write"
    /\ connTargets' = IF ctmp[r].k = NoTarget THEN connTargets
                      ELSE [connTargets EXCEPT ![ctmp[r].k].ActiveConns = ctmp[r].v - 1]
    /\ mu' = mu \ {r}
    /\ cpc' = [cpc EXCEPT ![r] = "done"]
    /\ UNCHANGED <<caddr, ctmp, peak>>
    /\ UNCHANGED notConns

\* the next request of the same connection
NextRequest(r) ==
    /\ cpc[r] = "done"
    /\ \E q \in ConnReqs : cpc[q] \notin {"start", "done"}
    /\ cpc' = [cpc EXCEPT ![r] = "start"]
    /\ UNCHANGED <<connTargets, mu, caddr, ctmp, peak>>
    /\ UNCHANGED notConns

ConnsNext ==
    \/ \E r \in ConnReqs : IncLock(r)
    \/ \E r \in ConnReqs : IncFind(r)
    \/ \E r \in ConnReqs : IncWrite(r)
    \/ \E r \in ConnReqs : DecLock(r)
    \/ \E r \in ConnReqs : DecFind(r)
    \/ \E r \in ConnReqs : DecWrite(r)
    \/ \E r \in ConnReqs : NextRequest(r)

\* C5: under any interleaving of increment/decrement pairs, active_conns is
\* never negative, and once every pair has completed it is back at the value
\* it had before the first pair.
C5_ActiveConnsBalanced ==
    /\ \A k \in 1..Len(connTargets) : connTargets[k].ActiveConns >= 0
    /\ (\A r \in ConnReqs : cpc[r] \in {"start", "done"}) =>
          \A k \in 1..Len(connTargets) : connTargets[k].ActiveConns = 0

\* every pair has completed, after the pairs overlapped on one counter of an
\* upstream that lists the address twice
C5_Witness ==
    /\ \A r \in ConnReqs : cpc[r] = "done"
    /\ peak >= 2
    /\ Len(connTargets) = 2
    /\ connTargets[1].Address = connTargets[2].Address

(***************************************************************************)
(* Health checker: updateTargetStatus on the outcome of a probe            *)
(* (health_checker.go)                                                     *)
(***************************************************************************)
HealthChecks ==
    { [Enabled |-> TRUE, HealthyThreshold |-> h, UnhealthyThreshold |-> u] :
        h \in {1, 2}, u \in {1, 3} }

HealthTargetLists ==
    { <<MkTarget("a1", 1, st, 0)>> :
        st \in {TargetStatusUnknown, TargetStatusHealthy, TargetStatusUnhealthy} }
    \cup
    { <<MkTarget("a1", 1, TargetStatusUnknown, 0), MkTarget("a2", 1, TargetStatusHealthy, 0)>>,
      <<MkTarget("a1", 1, TargetStatusUnknown, 0), MkTarget("a1", 1, TargetStatusHealthy, 0)>> }

NoStreak == [outcome |-> "none", n |-> 0, from |-> "", writes |-> 0]

HealthInit ==
    /\ hcTargets \in HealthTargetLists
    /\ hcCheck \in HealthChecks
    /\ streak = [k \in 1..Len(hcTargets) |-> NoStreak]

\* the health checker left alone
HealthOff ==
    /\ hcTargets = <<>>
    /\ hcCheck = [Enabled |-> FALSE]
    /\ streak = <<>>

\* updateTargetStatus(upstream, target, healthy): the targets it leaves, and
\* whether it wrote a status (UpdateTargetStatus and the log line)
UpdateOnProbe(ts, k, check, healthy) ==
    IF healthy
    THEN LET t0 == [ts EXCEPT ![k].FailCount = 0]
         IN  IF t0[k].Status # TargetStatusHealthy
             THEN IF t0[k].FailCount <= -check.HealthyThreshold
                  THEN [targets |-> UpdateTargetStatusIn(t0, t0[k].Address, TargetStatusHealthy),
                        wrote |-> TRUE]
                  ELSE [targets |-> [t0 EXCEPT ![k].FailCount = t0[k].FailCount - 1],
                        wrote |-> FALSE]
             ELSE [targets |-> t0, wrote |-> FALSE]
    ELSE LET t1 == [ts EXCEPT ![k].FailCount = ts[k].FailCount + 1]
         IN  IF t1[k].Status # TargetStatusUnhealthy
                /\ t1[k].FailCount >= check.UnhealthyThreshold
             THEN [targets |-> UpdateTargetStatusIn(t1, t1[k].Address, TargetStatusUnhealthy),
                   wrote |-> TRUE]
             ELSE [targets |-> t1, wrote |-> FALSE]

\* the run of equal outcomes of a target, after one more probe
StreakAfter(old, status, outcome, wrote) ==
    LET w == IF wrote THEN 1 ELSE 0
    IN  IF old.outcome = outcome
        THEN [old EXCEPT !.n = IF old.n < StreakCap THEN old.n + 1 ELSE old.n,
                         !.writes = IF old.writes + w < StreakCap THEN old.writes + w
                                    ELSE StreakCap]
        ELSE [outcome |-> outcome, n |-> 1, from |-> status, writes |-> w]

\* checkUpstream probes target k and hands the outcome to updateTargetStatus
Probe(k, healthy) ==
    /\ healthy \/ hcTargets[k].FailCount < MaxFailCount
    /\ LET res == UpdateOnProbe(hcTargets, k, hcCheck, healthy)
       IN  /\ hcTargets' = res.targets
           /\ streak' = [streak EXCEPT ![k] =
                 StreakAfter(streak[k], hcTargets[k].Status,
                             IF healthy THEN "success" ELSE "failure", res.wrote)]
    /\ UNCHANGED hcCheck
    /\ UNCHANGED notHealth

ProbeSucceeds == \E k \in 1..Len(hcTargets) : Probe(k, TRUE)

ProbeFails == \E k \in 1..Len(hcTargets) : Probe(k, FALSE)

HealthNext ==
    \/ ProbeSucceeds
    \/ ProbeFails

\* C10: once a target that was unknown or unhealthy has had
\* healthy_threshold successful probes in a row, its status is healthy and
\* that run of successes has written the status exactly once.
C10_HealthyAfterThreshold ==
    \A k \in 1..Len(hcTargets) :
       ( /\ streak[k].outcome = "success"
         /\ streak[k].from \in {TargetStatusUnknown, TargetStatusUnhealthy}
         /\ hcCheck.HealthyThreshold > 0
         /\ streak[k].n >= hcCheck.HealthyThreshold )
       => /\ hcTargets[k].Status = TargetStatusHealthy
          /\ streak[k].writes = 1

\* C11: once a target that was healthy or unknown has had
\* unhealthy_threshold failed probes in a row, whatever came before them, its
\* status is unhealthy and that run of failures has written the status
\* exactly once.
C11_UnhealthyAfterThreshold ==
    \A k \in 1..Len(hcTargets) :
       ( /\ streak[k].outcome = "failure"
         /\ streak[k].from \in {TargetStatusHealthy, TargetStatusUnknown}
         /\ hcCheck.UnhealthyThreshold > 0
         /\ streak[k].n >= hcCheck.UnhealthyThreshold )
       => /\ hcTargets[k].Status = TargetStatusUnhealthy
          /\ streak[k].writes = 1

(***************************************************************************)
(* Upstream registry: the watcher's map and the request goroutines that    *)
(* read it (ConfigWatcher.handleUpstreamEvent, GetUpstream, ServeHTTP)     *)
(***************************************************************************)
UpstreamIDs == {"u1", "u2"}

Lookups == 1..NumLookups

NoUpstream == [nil |-> TRUE]

\* Go's runtime report when it detects the race on a map
FatalConcurrentMap == [fatal |-> "concurrent map read and map write"]

\* the one map made by NewConfigWatcher
NewRegistry == [obj |-> "map#1", entries |-> [id \in {} |-> NoUpstream]]

\* upstreams[id] = upstream
MapAssign(entries, id, upstream) ==
    [k \in DOMAIN entries \cup {id} |-> IF k = id THEN upstream ELSE entries[k]]

\* delete(upstreams, id)
MapDelete(entries, id) == [k \in DOMAIN entries \ {id} |-> entries[k]]

\* upstream, ok := upstreams[id]
MapLookup(entries, id) == IF id \in DOMAIN entries THEN entries[id] ELSE NoUpstream

RegistryInit ==
    /\ registry = NewRegistry
    /\ wpc = [pc |-> "idle"]
    /\ rpc = [g \in Lookups |-> [pc |-> "idle"]]
    /\ events = 0

\* the registry left alone
RegistryOff ==
    /\ registry = NewRegistry
    /\ wpc = [pc |-> "idle"]
    /\ rpc = <<>>
    /\ events = 0

\* the runtime's fatal error ends the process
Crashed == \E g \in DOMAIN rpc : rpc[g].pc = "done" /\ rpc[g].result = FatalConcurrentMap

\* every GetUpstream that is inside its map read when a write goes on is
\* racing with it
Raced(readers) ==
    [g \in DOMAIN readers |->
        IF readers[g].pc = "reading" THEN [readers[g] EXCEPT !.raced = TRUE] ELSE readers[g]]

\* handleUpstreamEvent, put of a value that decodes and validates: the map
\* assignment starts; the upstream is a new object for every event
UpstreamPutBegin ==
    /\ ~Crashed
    /\ wpc.pc = "idle"
    /\ events < MaxEvents
    /\ \E id \in UpstreamIDs :
          wpc' = [pc |-> "writing", obj |-> registry.obj, type |-> "put", id |-> id,
                  upstream |-> [ID |-> id, object |-> events + 1]]
    /\ events' = events + 1
    /\ rpc' = Raced(rpc)
    /\ UNCHANGED registry
    /\ UNCHANGED notRegistry

\* handleUpstreamEvent, put of a value that FromJSON rejects: logged, no write
UpstreamPutRejected ==
    /\ ~Crashed
    /\ wpc.pc = "idle"
    /\ events < MaxEvents
    /\ events' = events + 1
    /\ UNCHANGED <<registry, wpc, rpc>>
    /\ UNCHANGED notRegistry

\* handleUpstreamEvent, delete: the map delete starts
UpstreamDeleteBegin ==
    /\ ~Crashed
    /\ wpc.pc = "idle"
    /\ events < MaxEvents
    /\ \E id \in UpstreamIDs :
          wpc' = [pc |-> "writing", obj |-> registry.obj, type |-> "delete", id |-> id]
    /\ events' = events + 1
    /\ rpc' = Raced(rpc)
    /\ UNCHANGED registry
    /\ UNCHANGED notRegistry

\* the map write completes, in the map object the watcher was made with
UpstreamWriteEnd ==
    /\ ~Crashed
    /\ wpc.pc = "writing"
    /\ registry' = [registry EXCEPT !.entries =
                       IF wpc.type = "put" THEN MapAssign(registry.entries, wpc.id, wpc.upstream)
                       ELSE MapDelete(registry.entries, wpc.id)]
    /\ wpc' = [pc |-> "idle"]
    /\ UNCHANGED <<rpc, events>>
    /\ UNCHANGED notRegistry

\* ServeHTTP, for this goroutine's next request, calls
\* GetUpstream(route.UpstreamID): the map read starts, with no lock taken
GetUpstreamBegin(g) ==
    /\ ~Crashed
    /\ rpc[g].pc \in {"idle", "done"}
    /\ \E id \in UpstreamIDs :
          rpc' = [rpc EXCEPT ![g] =
                    [pc |-> "reading", obj |-> registry.obj, id |-> id,
                     before |-> MapLookup(registry.entries, id),
                     raced |-> wpc.pc = "writing"]]
    /\ UNCHANGED <<registry, wpc, events>>
    /\ UNCHANGED notRegistry

\* the map read completes; a read that raced with a write may see the entry
\* as it was, as it is, or end the process with the runtime's fatal error
GetUpstreamEnd(g) ==
    /\ ~Crashed
    /\ rpc[g].pc = "reading"
    /\ \E res \in IF rpc[g].raced
                  THEN {rpc[g].before, MapLookup(registry.entries, rpc[g].id), FatalConcurrentMap}
                  ELSE {MapLookup(registry.entries, rpc[g].id)} :
          rpc' = [rpc EXCEPT ![g] = [pc |-> "done", id |-> rpc[g].id, result |-> res]]
    /\ UNCHANGED <<registry, wpc, events>>
    /\ UNCHANGED notRegistry

RegistryNext ==
    \/ UpstreamPutBegin
    \/ UpstreamPutRejected
    \/ UpstreamDeleteBegin
    \/ UpstreamWriteEnd
    \/ \E g \in Lookups : GetUpstreamBegin(g)
    \/ \E g \in Lookups : GetUpstreamEnd(g)

\* C9: the registry is an immutable snapshot: the watcher never writes the
\* map object that a request goroutine is reading in GetUpstream.
C9_RegistryNotWrittenWhileRead ==
    ~ ( /\ wpc.pc = "writing"
        /\ \E g \in Lookups : rpc[g].pc = "reading" /\ rpc[g].obj = wpc.obj )

(***************************************************************************)
(* The route table under concurrency: writer goroutines run LoadRoutes,    *)
(* AddRoute and DeleteRoute statement by statement, reader goroutines run  *)
(* Match, GetRoute and ListRoutes                                          *)
(***************************************************************************)
Writers == 1..NumWriters

Readers == 1..NumReaders

NoAddress == 0

CR1 == MkRoute("r1", 1, RouteStatusEnabled, Pred(P_a, PathTypePrefix), "u1")

CR2 == MkRoute("r2", 2, RouteStatusEnabled, Pred(P_ax, PathTypePrefix), "u1")

CRBad == MkRoute("r1", 1, RouteStatusEnabled, Pred(RX_bad, PathTypeRegex), "u1")

\* the operations a writer goroutine may be running
ConcOps ==
    { [kind |-> "LoadRoutes", routes |-> <<CR1, CR2>>],
      [kind |-> "LoadRoutes", routes |-> <<CRBad>>],
      [kind |-> "AddRoute", route |-> CR1],
      [kind |-> "AddRoute", route |-> CRBad],
      [kind |-> "DeleteRoute", id |-> "r2"] }

\* tables an earlier run of the router may have left published
ConcStartTables == { EmptyTable, NewRouteTable(<<CR2>>) }

\* &RouteTable{routes: rs, indexMap: make(map[string]*config.Route)}
AllocTable(rs) == [routes |-> rs, indexMap |-> BuildIndex(<<>>)]

\* indexMap[route.ID] = route
IndexPut(indexMap, route) ==
    [id \in DOMAIN indexMap \cup {route.ID} |->
        IF id = route.ID THEN route ELSE indexMap[id]]

\* a writer that publishes before its loop over the routes has run
IndexBuilt_Early(t, i) == TRUE

\* the loop that fills indexMap has gone over every route of the table
IndexBuilt(t, i) == i > Len(t.routes)

\* the route lists a writer may have built when it allocates its table
BuiltRoutes(op, old) ==
    IF op.kind = "LoadRoutes" THEN SortSlice(FilterValid(op.routes))
    ELSE IF op.kind = "AddRoute"
         THEN SortSlice(ReplaceOrAppend(old.routes, Validated(op.route)))
    ELSE {OmitID(old.routes, op.id)}

\* the tables the operation may publish when it runs alone on table t
ApplyOp(t, op) ==
    IF op.kind = "LoadRoutes" THEN LoadRoutesResult(op.routes)
    ELSE IF op.kind = "AddRoute"
         THEN IF ValidateErr(op.route) # NoError THEN {t}
              ELSE AddRouteResult(t, Validated(op.route))
    ELSE {DeleteRouteResult(t, op.id)}

\* the tables that running the operations of the writers in W one after
\* another, in any order, may publish from one of the tables ts
RECURSIVE SerialOutcomes(_, _)
SerialOutcomes(ts, W) ==
    IF W = {} THEN ts
    ELSE UNION { SerialOutcomes(UNION { ApplyOp(t, wr[w].op) : t \in ts }, W \ {w}) : w \in W }

RouterConcInit ==
    /\ \E t \in ConcStartTables : heap = <<t>>
    /\ published = 1
    /\ rmu = {}
    /\ wr = [w \in Writers |-> [pc |-> "start"]]
    /\ rd = [g \in Readers |-> [pc |-> "idle"]]

\* the concurrent route table left alone
RouterConcOff ==
    /\ heap = <<EmptyTable>>
    /\ published = 1
    /\ rmu = {}
    /\ wr = <<>>
    /\ rd = <<>>

\* LoadRoutes is called: it takes no lock and reads no old table
LoadRoutesCall(w) ==
    /\ wr[w].pc = "start"
    /\ \E op \in { o \in ConcOps : o.kind = "LoadRoutes" } :
          wr' = [wr EXCEPT ![w] = [pc |-> "build", op |-> op, old |-> NoAddress,
                                   new |-> NoAddress, i |-> 0, err |-> NoError]]
    /\ UNCHANGED <<heap, published, rmu, rd>>
    /\ UNCHANGED notRouterConc

\* AddRoute is called: Validate, and return its error before any lock
AddRouteCall(w) ==
    /\ wr[w].pc = "start"
    /\ \E op \in { o \in ConcOps : o.kind = "AddRoute" } :
          wr' = [wr EXCEPT ![w] =
                    [pc |-> IF ValidateErr(op.route) # NoError THEN "done" ELSE "lock",
                     op |-> op, old |-> NoAddress, new |-> NoAddress, i |-> 0,
                     err |-> ValidateErr(op.route)]]
    /\ UNCHANGED <<heap, published, rmu, rd>>
    /\ UNCHANGED notRouterConc

\* DeleteRoute is called
DeleteRouteCall(w) ==
    /\ wr[w].pc = "start"
    /\ \E op \in { o \in ConcOps : o.kind = "DeleteRoute" } :
          wr' = [wr EXCEPT ![w] = [pc |-> "lock", op |-> op, old |-> NoAddress,
                                   new |-> NoAddress, i |-> 0, err |-> NoError]]
    /\ UNCHANGED <<heap, published, rmu, rd>>
    /\ UNCHANGED notRouterConc

\* r.mu.Lock() of AddRoute and DeleteRoute
WriterLock(w) ==
    /\ wr[w].pc = "lock"
    /\ rmu = {}
    /\ rmu' = {w}
    /\ wr' = [wr EXCEPT ![w].pc = "load"]
    /\ UNCHANGED <<heap, published, rd>>
    /\ UNCHANGED notRouterConc

\* oldTable := r.routes.Load()
WriterLoadOld(w) ==
    /\ wr[w].pc = "load"
    /\ wr' = [wr EXCEPT ![w].pc = "build", ![w].old = published]
    /\ UNCHANGED <<heap, published, rmu, rd>>
    /\ UNCHANGED notRouterConc

\* the new route list is built and sorted in a slice of the writer's own,
\* and the new table is allocated around it with an empty index
WriterBuild(w) ==
    /\ wr[w].pc = "build"
    /\ \E rs \in BuiltRoutes(wr[w].op,
                             IF wr[w].old = NoAddress THEN EmptyTable ELSE heap[wr[w].old]) :
          heap' = Append(heap, AllocTable(rs))
    /\ wr' = [wr EXCEPT ![w].pc = "index", ![w].new = Len(heap) + 1, ![w].i = 1]
    /\ UNCHANGED <<published, rmu, rd>>
    /\ UNCHANGED notRouterConc

\* one turn of the loop that fills newTable.indexMap
WriterIndex(w) ==
    /\ wr[w].pc = "index"
    /\ wr[w].i <= Len(heap[wr[w].new].routes)
    /\ heap' = [heap EXCEPT ![wr[w].new].indexMap =
                   IndexPut(@, heap[wr[w].new].routes[wr[w].i])]
    /\ wr' = [wr EXCEPT ![w].i = @ + 1]
    /\ UNCHANGED <<published, rmu, rd>>
    /\ UNCHANGED notRouterConc

\* r.routes.Store(newTable); LoadRoutes returns here
WriterStore(w) ==
    /\ wr[w].pc = "index"
    /\ IndexBuilt(heap[wr[w].new], wr[w].i)
    /\ published' = wr[w].new
    /\ wr' = [wr EXCEPT ![w].pc = IF wr[w].op.kind = "LoadRoutes" THEN "done" ELSE "unlock"]
    /\ UNCHANGED <<heap, rmu, rd>>
    /\ UNCHANGED notRouterConc

\* the deferred r.mu.Unlock() of AddRoute and DeleteRoute
WriterUnlock(w) ==
    /\ wr[w].pc = "unlock"
    /\ rmu' = rmu \ {w}
    /\ wr' = [wr EXCEPT ![w].pc = "done"]
    /\ UNCHANGED <<heap, published, rd>>
    /\ UNCHANGED notRouterConc

\* table := r.routes.Load(), the first statement of Match, GetRoute and
\* ListRoutes
ReaderLoad(g) ==
    /\ rd[g].pc = "idle"
    /\ rd' = [rd EXCEPT ![g] = [pc |-> "holding", ptr |-> published, snap |-> heap[published]]]
    /\ UNCHANGED <<heap, published, rmu, wr>>
    /\ UNCHANGED notRouterConc

\* the reader has gone over the table it loaded and returns
ReaderReturn(g) ==
    /\ rd[g].pc = "holding"
    /\ rd' = [rd EXCEPT ![g] = [pc |-> "idle"]]
    /\ UNCHANGED <<heap, published, rmu, wr>>
    /\ UNCHANGED notRouterConc

RouterConcNext ==
    \/ \E w \in Writers : LoadRoutesCall(w)
    \/ \E w \in Writers : AddRouteCall(w)
    \/ \E w \in Writers : DeleteRouteCall(w)
    \/ \E w \in Writers : WriterLock(w)
    \/ \E w \in Writers : WriterLoadOld(w)
    \/ \E w \in Writers : WriterBuild(w)
    \/ \E w \in Writers : WriterIndex(w)
    \/ \E w \in Writers : WriterStore(w)
    \/ \E w \in Writers : WriterUnlock(w)
    \/ \E g \in Readers : ReaderLoad(g)
    \/ \E g \in Readers : ReaderReturn(g)

\* C6: a published table is never written again: the table at the address a
\* reader loaded is what it was at the load, whatever the writers do in
\* between, and the published table has its list and its index complete.
C6_PublishedTableImmutable ==
    /\ heap[published].indexMap = BuildIndex(heap[published].routes)
    /\ \A g \in DOMAIN rd :
          rd[g].pc = "holding"
          => /\ heap[rd[g].ptr] = rd[g].snap
             /\ rd[g].snap.indexMap = BuildIndex(rd[g].snap.routes)

\* a reader still holds a table that a writer has since replaced, while a
\* writer is half way through the index of its own new, non-empty table
C6_Witness ==
    \E g \in DOMAIN rd :
       /\ rd[g].pc = "holding"
       /\ rd[g].ptr # published
       /\ heap[rd[g].ptr].routes # <<>>
       /\ \E w \in DOMAIN wr :
             /\ wr[w].pc = "index"
             /\ wr[w].i > 1
             /\ wr[w].i <= Len(heap[wr[w].new].routes)

\* C8: the writers are serialized: once every writer has returned, the
\* published table is one that running their operations one at a time, in
\* some order, publishes from the starting table.
C8_WritersSerialized ==
    (wr # <<>> /\ \A w \in DOMAIN wr : wr[w].pc = "done")
    => heap[published] \in SerialOutcomes({heap[1]}, DOMAIN wr)

(***************************************************************************)
(* Dispatch: the requests of the gateway for one upstream, as              *)
(* Gateway.proxyHandler serves them one after another (main.go)            *)
(***************************************************************************)
\* http.Request.RemoteAddr of the requests: "host:port" of the connection
RemoteAddrs == {"1.2.3.4:5000", "1.2.3.4:5004", "192.168.1.1:80"}

\* the host of a "host:port" address (net.SplitHostPort)
SplitHost(remoteAddr) ==
    CASE remoteAddr = "1.2.3.4:5000"   -> "1.2.3.4"
      [] remoteAddr = "1.2.3.4:5004"   -> "1.2.3.4"
      [] remoteAddr = "192.168.1.1:80" -> "192.168.1.1"

\* NewLoadBalancer: a balancer with a counter starts with it at zero
NewLoadBalancer(lbType) ==
    IF lbType = LoadBalanceWeighted THEN [type |-> lbType, current |-> 0]
    ELSE IF lbType \in {LoadBalanceLeastConn, LoadBalanceIPHash, LoadBalanceRandom}
         THEN [type |-> lbType]
    ELSE [type |-> LoadBalanceRoundRobin, current |-> U32(0, 0)]

\* lb.Select(clientIP): the outcomes of the call, each with the position of
\* the target in Targets (0 with the error) and the balancer as it is left
LBSelect(lb, ts, clientIP) ==
    LET healthy == GetHealthyTargets(ts)
        n       == Len(healthy)
    IN  IF n = 0 THEN { [err |-> ErrNoHealthyTarget, target |-> 0, lb |-> lb] }
        ELSE IF lb.type = LoadBalanceRoundRobin
             THEN { [err |-> NoError,
                     target |-> healthy[ModU32(AddUint32(lb.current), n) + 1],
                     lb |-> [lb EXCEPT !.current = AddUint32(lb.current)]] }
        ELSE IF lb.type = LoadBalanceWeighted
             THEN LET cur == (lb.current + 1) % SumWeights(ts, healthy)
                  IN  { [err |-> NoError, target |-> WeightedPick(ts, healthy, cur),
                         lb |-> [lb EXCEPT !.current = cur]] }
        ELSE IF lb.type = LoadBalanceLeastConn
             THEN { [err |-> NoError, target |-> LeastConnPick(ts, healthy), lb |-> lb] }
        ELSE IF lb.type = LoadBalanceIPHash
             THEN { [err |-> NoError,
                     target |-> healthy[ModU32(ChecksumIEEE(clientIP), n) + 1],
                     lb |-> lb] }
        ELSE { [err |-> NoError, target |-> healthy[idx + 1], lb |-> lb] : idx \in 0..(n - 1) }

\* Upstream.IncrementActiveConns / DecrementActiveConns, as one step each
AddActiveConns(ts, k, delta) ==
    IF k = NoTarget THEN ts ELSE [ts EXCEPT ![k].ActiveConns = @ + delta]

\* the upstreams requests are dispatched to; no status changes while they are
DispatchUpstreams ==
    { [Type |-> ty, Targets |-> ts] :
        ty \in Policies,
        ts \in { <<MkTarget("10.0.0.1:80", 1, TargetStatusHealthy, 0),
                   MkTarget("10.0.0.2:80", 1, TargetStatusHealthy, 0)>>,
                 <<MkTarget("10.0.0.1:80", 1, TargetStatusHealthy, 0),
                   MkTarget("10.0.0.2:80", 2, TargetStatusHealthy, 0),
                   MkTarget("10.0.0.3:80", 1, TargetStatusHealthy, 0)>>,
                 <<MkTarget("10.0.0.1:80", 1, TargetStatusUnknown, 0),
                   MkTarget("10.0.0.2:80", 1, TargetStatusHealthy, 0)>>,
                 <<MkTarget("10.0.0.1:80", 1, TargetStatusUnhealthy, 0)>>,
                 <<MkTarget("10.0.0.1:80", 1, TargetStatusHealthy, 0),
                   MkTarget("10.0.0.1:80", 2, TargetStatusHealthy, 0)>> } }

DispatchInit ==
    /\ dUp \in DispatchUpstreams
    /\ dReq = [pc |-> "idle"]
    /\ dLog = <<>>

\* no request dispatched
DispatchOff ==
    /\ dUp = [Type |-> LoadBalanceRoundRobin, Targets |-> <<>>]
    /\ dReq = [pc |-> "idle"]
    /\ dLog = <<>>

\* proxyHandler is entered for a request: it makes the balancer it will use
ProxyNewLoadBalancer ==
    /\ dReq.pc \in {"idle", "done"}
    /\ Len(dLog) < MaxDispatch
    /\ \E remoteAddr \in RemoteAddrs :
          dReq' = [pc |-> "select", RemoteAddr |-> remoteAddr,
                   lb |-> NewLoadBalancer(dUp.Type)]
    /\ UNCHANGED <<dUp, dLog>>
    /\ UNCHANGED notDispatch

\* clientIP := ctx.Request.RemoteAddr; lb.Select(clientIP); 503 on its error,
\* else IncrementActiveConns(target.Address)
ProxySelect ==
    /\ dReq.pc = "select"
    /\ \E res \in LBSelect(dReq.lb, dUp.Targets, dReq.RemoteAddr) :
          IF res.err # NoError
          THEN /\ dReq' = [pc |-> "done", RemoteAddr |-> dReq.RemoteAddr, status |-> 503]
               /\ dLog' = Append(dLog, [RemoteAddr |-> dReq.RemoteAddr, target |-> ""])
               /\ UNCHANGED dUp
          ELSE /\ dReq' = [pc |-> "proxy", RemoteAddr |-> dReq.RemoteAddr, lb |-> res.lb,
                           address |-> dUp.Targets[res.target].Address,
                           selected |-> res.target,
                           counted |-> IncTarget(dUp.Targets,
                                                 dUp.Targets[res.target].Address)]
               /\ dUp' = [dUp EXCEPT !.Targets =
                             AddActiveConns(@, IncTarget(@, dUp.Targets[res.target].Address), 1)]
               /\ UNCHANGED dLog
    /\ UNCHANGED notDispatch

\* proxy.ServeHTTP forwards to the target, then the deferred
\* DecrementActiveConns(target.Address) runs
ProxyServe ==
    /\ dReq.pc = "proxy"
    /\ dUp' = [dUp EXCEPT !.Targets = AddActiveConns(@, DecTarget(@, dReq.address), -1)]
    /\ dLog' = Append(dLog, [RemoteAddr |-> dReq.RemoteAddr, target |-> dReq.address])
    /\ dReq' = [pc |-> "done", RemoteAddr |-> dReq.RemoteAddr, status |-> 200,
                selected |-> dReq.selected, counted |-> dReq.counted,
                released |-> DecTarget(dUp.Targets, dReq.address)]
    /\ UNCHANGED notDispatch

DispatchNext ==
    \/ ProxyNewLoadBalancer
    \/ ProxySelect
    \/ ProxyServe

\* C12: for a round-robin upstream whose healthy set has n targets, any n
\* requests in a row go to n different targets (with n = 2 they alternate).
C12_RoundRobinCycles ==
    LET n == Len(GetHealthyTargets(dUp.Targets))
    IN  (dUp.Type = LoadBalanceRoundRobin /\ n > 0)
        => \A i \in 1..(Len(dLog) - n + 1) :
              \A j, k \in i..(i + n - 1) : j # k => dLog[j].target # dLog[k].target

\* C13: for an ip-hash upstream, any two requests from the same client IP
\* address go to the same target, whatever their source ports.
C13_SameClientSameTarget ==
    dUp.Type = LoadBalanceIPHash
    => \A i, j \in 1..Len(dLog) :
          SplitHost(dLog[i].RemoteAddr) = SplitHost(dLog[j].RemoteAddr)
          => dLog[i].target = dLog[j].target

(***************************************************************************)
(* The gateway: ConfigWatcher.Start and its two watch loops, the health    *)
(* checker's ticks and Gateway.ServeHTTP (part_003, health_checker.go,     *)
(* main.go)                                                                *)
(***************************************************************************)
P_z == <<"/", "z">>

\* extractID: the id is what follows the prefix in the etcd key; keys are
\* kept as that id
RouteKeys == {"r1", "r2"}

UpstreamKeys == {"u1"}

\* a route value as it is stored in etcd: its JSON id need not be the key
GwRoute(id) == MkRoute(id, 1, RouteStatusEnabled, Pred(P_a, PathTypePrefix), "u1")

\* route values of put events: two that validate, one that does not
GwRouteValues ==
    { GwRoute("r1"), GwRoute("r2"),
      MkRoute("r1", 1, RouteStatusEnabled, Pred(<<>>, PathTypePrefix), "u1") }

MkHealthCheck(enabled, h, u) ==
    [Enabled |-> enabled, HealthyThreshold |-> h, UnhealthyThreshold |-> u]

\* an upstream value as it is stored in etcd; object tells the Upstream
\* objects that FromJSON decodes into apart
GwUpstream(id, status, enabled) ==
    [ID |-> id, Type |-> LoadBalanceRoundRobin,
     Targets |-> <<MkTarget("10.0.0.1:80", 1, status, 0)>>,
     HealthCheck |-> MkHealthCheck(enabled, 2, 3), object |-> 0]

\* Upstream.Validate, on the fields of the model: the error
UpstreamValidateErr(u) ==
    IF u.ID = "" THEN "upstream id cannot be empty"
    ELSE IF Len(u.Targets) = 0 THEN "upstream must have at least one target"
    ELSE IF u.Type \notin Policies THEN "invalid load balance type"
    ELSE IF \E i \in 1..Len(u.Targets) : u.Targets[i].Address = ""
         THEN "target address cannot be empty"
    ELSE NoError

\* Upstream.Validate: the upstream as it leaves it (defaults filled in)
UpstreamValidated(u) ==
    [u EXCEPT !.Targets =
                 [i \in 1..Len(u.Targets) |->
                     [u.Targets[i] EXCEPT
                         !.Weight = IF @ < 1 THEN 1 ELSE @,
                         !.Status = IF @ = "" THEN TargetStatusUnknown ELSE @]],
              !.HealthCheck =
                 IF u.HealthCheck.Enabled
                 THEN [@ EXCEPT !.HealthyThreshold = IF @ = 0 THEN 2 ELSE @,
                                !.UnhealthyThreshold = IF @ = 0 THEN 3 ELSE @]
                 ELSE @]

\* upstream values of put events: healthy or not yet probed, probed or not,
\* and one that does not validate
GwUpstreamValues ==
    { GwUpstream("u1", TargetStatusHealthy, TRUE),
      GwUpstream("u1", "", TRUE),
      GwUpstream("u1", TargetStatusHealthy, FALSE),
      GwUpstream("u2", TargetStatusHealthy, FALSE),
      [GwUpstream("u1", TargetStatusHealthy, TRUE) EXCEPT !.Targets = <<>>] }

\* what etcd holds when the gateway starts: key/value pairs
GwRouteStores ==
    { <<>>, <<[key |-> "r1", value |-> GwRoute("r1")]>>,
      <<[key |-> "r1", value |-> GwRoute("r2")]>> }

GwUpstreamStores ==
    { <<>>, <<[key |-> "u1", value |-> GwUpstream("u1", TargetStatusHealthy, TRUE)]>> }

GwRequests ==
    { MkRequest(P_a, "GET", "h1", [k \in {} |-> <<>>]),
      MkRequest(P_z, "GET", "h1", [k \in {} |-> <<>>]) }

NoEvent == [type |-> "none"]

\* the values of a store that FromJSON accepts, as loadRoutes and
\* loadUpstreams return them
RECURSIVE ParsedRoutes(_)
ParsedRoutes(kvs) ==
    IF kvs = <<>> THEN <<>>
    ELSE IF ValidateErr(kvs[1].value) # NoError THEN ParsedRoutes(Tail(kvs))
         ELSE <<Validated(kvs[1].value)>> \o ParsedRoutes(Tail(kvs))

\* the loop of loadAllConfigs: upstreams[upstream.ID] = upstream
RECURSIVE LoadedUpstreams(_, _)
LoadedUpstreams(entries, kvs) ==
    IF kvs = <<>> THEN entries
    ELSE IF UpstreamValidateErr(kvs[1].value) # NoError
         THEN LoadedUpstreams(entries, Tail(kvs))
         ELSE LoadedUpstreams(
                 MapAssign(entries, kvs[1].value.ID, UpstreamValidated(kvs[1].value)),
                 Tail(kvs))

\* history: for the routes of a loaded table, the key each was stored under
OriginOfStore(kvs, routes) ==
    [id \in IDsOf(routes) |->
        kvs[CHOOSE i \in 1..Len(kvs) :
               /\ kvs[i].value.ID = id
               /\ \A j \in (i + 1)..Len(kvs) : kvs[j].value.ID # id].key]

\* NewGateway: an empty router, registry and health checker
GatewayInit ==
    /\ gwRoutes = EmptyTable
    /\ gwUpstreams = NewRegistry.entries
    /\ gwChecked = {}
    /\ gwWatch = [pc |-> "idle"]
    /\ gwReq = [pc |-> "idle"]
    /\ gwHist = [started |-> FALSE, origin |-> <<>>, applied |-> {}, notFound |-> {},
                 events |-> 0, last |-> NoEvent]

\* no gateway
GatewayOff == GatewayInit

GwRunning == gwHist.started /\ gwReq.pc # "crashed"

\* Gateway.Start: watcher.Start loads the routes and the upstreams that etcd
\* holds, then the watch loops, the health checker and the listeners start
GatewayStart ==
    /\ ~gwHist.started
    /\ \E rkvs \in GwRouteStores, ukvs \in GwUpstreamStores :
       \E t \in LoadRoutesResult(ParsedRoutes(rkvs)) :
          /\ gwRoutes' = t
          /\ gwUpstreams' = LoadedUpstreams(gwUpstreams, ukvs)
          /\ gwHist' = [gwHist EXCEPT !.started = TRUE,
                                      !.origin = OriginOfStore(rkvs, t.routes)]
    /\ UNCHANGED <<gwChecked, gwWatch, gwReq>>
    /\ UNCHANGED notGateway

\* handleRouteEvent, put: FromJSON, then AddRoute under the id of the value
WatchRoutePut ==
    /\ GwRunning
    /\ gwHist.events < MaxWatchEvents
    /\ \E key \in RouteKeys, value \in GwRouteValues :
          IF ValidateErr(value) # NoError
          THEN /\ gwHist' = [gwHist EXCEPT !.events = @ + 1,
                                !.last = [type |-> "put", kind |-> "route", key |-> key,
                                          err |-> ValidateErr(value)]]
               /\ UNCHANGED gwRoutes
          ELSE \E t \in AddRouteResult(gwRoutes, Validated(value)) :
               /\ gwRoutes' = t
               /\ gwHist' = [gwHist EXCEPT !.events = @ + 1,
                                !.origin = MapAssign(@, value.ID, key),
                                !.last = [type |-> "put", kind |-> "route", key |-> key,
                                          err |-> NoError]]
    /\ UNCHANGED <<gwUpstreams, gwChecked, gwWatch, gwReq>>
    /\ UNCHANGED notGateway

\* handleRouteEvent, delete: DeleteRoute under the id taken from the key
WatchRouteDelete ==
    /\ GwRunning
    /\ gwHist.events < MaxWatchEvents
    /\ \E key \in RouteKeys :
          /\ gwRoutes' = DeleteRouteResult(gwRoutes, key)
          /\ gwHist' = [gwHist EXCEPT !.events = @ + 1,
                           !.origin = MapDelete(@, key),
                           !.last = [type |-> "delete", kind |-> "route", key |-> key,
                                     err |-> NoError]]
    /\ UNCHANGED <<gwUpstreams, gwChecked, gwWatch, gwReq>>
    /\ UNCHANGED notGateway

\* handleUpstreamEvent, put: FromJSON; a value it rejects is logged and
\* dropped, else the write upstreams[id of the key] = upstream starts
WatchUpstreamPut ==
    /\ GwRunning
    /\ gwWatch.pc = "idle"
    /\ gwHist.events < MaxWatchEvents
    /\ \E key \in UpstreamKeys, value \in GwUpstreamValues :
          /\ gwWatch' = IF UpstreamValidateErr(value) # NoError THEN gwWatch
                        ELSE [pc |-> "writing", type |-> "put", key |-> key,
                              upstream |-> [UpstreamValidated(value) EXCEPT
                                               !.object = gwHist.events + 1]]
          /\ gwHist' = [gwHist EXCEPT !.events = @ + 1,
                           !.last = [type |-> "put", kind |-> "upstream", key |-> key,
                                     err |-> UpstreamValidateErr(value)]]
    /\ UNCHANGED <<gwRoutes, gwUpstreams, gwChecked, gwReq>>
    /\ UNCHANGED notGateway

\* handleUpstreamEvent, delete: the write delete(upstreams, id) starts
WatchUpstreamDelete ==
    /\ GwRunning
    /\ gwWatch.pc = "idle"
    /\ gwHist.events < MaxWatchEvents
    /\ \E key \in UpstreamKeys :
          /\ gwWatch' = [pc |-> "writing", type |-> "delete", key |-> key]
          /\ gwHist' = [gwHist EXCEPT !.events = @ + 1,
                           !.applied = @ \ {key},
                           !.last = [type |-> "delete", kind |-> "upstream", key |-> key,
                                     err |-> NoError]]
    /\ UNCHANGED <<gwRoutes, gwUpstreams, gwChecked, gwReq>>
    /\ UNCHANGED notGateway

\* a registry that files an upstream under the id in its value
RegistryKey_OfValue(key, upstream) == upstream.ID

\* the registry files an upstream under upstreamID, the id taken from the key
RegistryKey(key, upstream) == key

\* the registry as the write in progress leaves it
GwWritten ==
    IF gwWatch.type = "put"
    THEN MapAssign(gwUpstreams, RegistryKey(gwWatch.key, gwWatch.upstream), gwWatch.upstream)
    ELSE MapDelete(gwUpstreams, gwWatch.key)

\* the write of handleUpstreamEvent completes
WatchUpstreamWritten ==
    /\ GwRunning
    /\ gwWatch.pc = "writing"
    /\ gwUpstreams' = GwWritten
    /\ gwWatch' = [pc |-> "idle"]
    /\ gwHist' = [gwHist EXCEPT !.applied =
                     IF gwWatch.type = "put" THEN @ \cup {gwWatch.key} ELSE @]
    /\ UNCHANGED <<gwRoutes, gwChecked, gwReq>>
    /\ UNCHANGED notGateway

\* checkUpstream: every target is probed and updateTargetStatus is given the
\* outcome, target after target
RECURSIVE ProbeTargets(_, _, _, _)
ProbeTargets(ts, k, check, healthy) ==
    IF k > Len(ts) THEN ts
    ELSE ProbeTargets(UpdateOnProbe(ts, k, check, healthy).targets, k + 1, check, healthy)

\* a tick of runHealthCheckLoop: checkAllUpstreams goes over the upstreams
\* registered with the health checker that have their check enabled
HealthTick ==
    /\ GwRunning
    /\ \E healthy \in BOOLEAN :
          gwUpstreams' =
             [key \in DOMAIN gwUpstreams |->
                 IF gwUpstreams[key].ID \in gwChecked /\ gwUpstreams[key].HealthCheck.Enabled
                 THEN [gwUpstreams[key] EXCEPT !.Targets =
                          ProbeTargets(@, 1, gwUpstreams[key].HealthCheck, healthy)]
                 ELSE gwUpstreams[key]]
    /\ UNCHANGED <<gwRoutes, gwChecked, gwWatch, gwReq, gwHist>>
    /\ UNCHANGED notGateway

\* ServeHTTP: router.Match; with no route, 404 and return
ServeMatch ==
    /\ GwRunning
    /\ gwReq.pc \in {"idle", "done"}
    /\ \E req \in GwRequests :
          LET route == MatchIn(gwRoutes, req)
          IN  gwReq' = IF route = NilRoute
                       THEN [pc |-> "done", req |-> req, route |-> route,
                             status |-> "404 Not Found", chain |-> FALSE]
                       ELSE [pc |-> "lookup", req |-> req, route |-> route]
    /\ UNCHANGED <<gwRoutes, gwUpstreams, gwChecked, gwWatch, gwHist>>
    /\ UNCHANGED notGateway

\* what GetUpstream may return: the entry of the map, and when the watcher
\* is inside a write of the map, the entry before or after that write, or
\* the end of the process
GetUpstreamResults(id) ==
    IF gwWatch.pc = "writing"
    THEN {MapLookup(gwUpstreams, id), MapLookup(GwWritten, id), FatalConcurrentMap}
    ELSE {MapLookup(gwUpstreams, id)}

\* ServeHTTP: watcher.GetUpstream(route.UpstreamID); 503 when it is absent
ServeGetUpstream ==
    /\ GwRunning
    /\ gwReq.pc = "lookup"
    /\ \E res \in GetUpstreamResults(gwReq.route.UpstreamID) :
          /\ gwReq' =
             IF res = FatalConcurrentMap THEN [pc |-> "crashed"]
             ELSE IF res = NoUpstream
                  THEN [pc |-> "done", req |-> gwReq.req, route |-> gwReq.route,
                        status |-> "503 Upstream Not Found", chain |-> FALSE,
                        present |-> gwReq.route.UpstreamID \in DOMAIN gwUpstreams,
                        applied |-> gwReq.route.UpstreamID \in gwHist.applied,
                        racing |-> gwWatch.pc = "writing"]
                  ELSE [pc |-> "handler", req |-> gwReq.req, route |-> gwReq.route,
                        upstream |-> res,
                        present |-> gwReq.route.UpstreamID \in DOMAIN gwUpstreams,
                        racing |-> gwWatch.pc = "writing"]
          /\ gwHist' = IF res = NoUpstream
                        THEN [gwHist EXCEPT !.notFound = @ \cup {gwReq.route.UpstreamID}]
                        ELSE gwHist
    /\ UNCHANGED <<gwRoutes, gwUpstreams, gwChecked, gwWatch>>
    /\ UNCHANGED notGateway

\* counters kept per upstream id: every entry with the id of the upstream the
\* request holds changes, whichever object it is
SameObject_ByID(entries, up, targets) ==
    [key \in DOMAIN entries |->
        IF entries[key].ID = up.ID
        THEN [entries[key] EXCEPT !.Targets = targets] ELSE entries[key]]

\* the registry after a change to the targets of the Upstream object the
\* request holds: the entries that still are that object change with it
SameObject(entries, up, targets) ==
    [key \in DOMAIN entries |->
        IF entries[key].object = up.object
        THEN [entries[key] EXCEPT !.Targets = targets] ELSE entries[key]]

\* the same for the Upstream object that the watcher has decoded and is
\* about to store
SameObjectInWatch(watch, up, targets) ==
    IF watch.pc = "writing" /\ watch.type = "put" /\ watch.upstream.object = up.object
    THEN [watch EXCEPT !.upstream.Targets = targets]
    ELSE watch

\* globalChain.Then(proxyHandler) runs: the decorators, then proxyHandler
\* with a balancer of its own: Select, 503 on its error, else
\* IncrementActiveConns(target.Address)
ServeHandler ==
    /\ GwRunning
    /\ gwReq.pc = "handler"
    /\ \E res \in LBSelect(NewLoadBalancer(gwReq.upstream.Type), gwReq.upstream.Targets,
                           "1.2.3.4:5000") :
          IF res.err # NoError
          THEN /\ gwReq' = [pc |-> "done", req |-> gwReq.req, route |-> gwReq.route,
                            status |-> "503 No Healthy Target", chain |-> TRUE,
                            upstream |-> gwReq.upstream,
                            present |-> gwReq.present, racing |-> gwReq.racing]
               /\ UNCHANGED <<gwUpstreams, gwWatch>>
          ELSE LET address == gwReq.upstream.Targets[res.target].Address
                   targets == AddActiveConns(gwReq.upstream.Targets,
                                             IncTarget(gwReq.upstream.Targets, address), 1)
               IN  /\ gwReq' = [pc |-> "proxy", req |-> gwReq.req, route |-> gwReq.route,
                                upstream |-> [gwReq.upstream EXCEPT !.Targets = targets],
                                address |-> address,
                                present |-> gwReq.present, racing |-> gwReq.racing]
                   /\ gwUpstreams' = SameObject(gwUpstreams, gwReq.upstream, targets)
                   /\ gwWatch' = SameObjectInWatch(gwWatch, gwReq.upstream, targets)
    /\ UNCHANGED <<gwRoutes, gwChecked, gwHist>>
    /\ UNCHANGED notGateway

\* how proxy.ServeHTTP ends: with the target's answer, with the error
\* handler's 502, or with a panic
ProxyOutcomes == {"proxied", "502 Bad Gateway", "panic"}

\* a DecrementActiveConns called at the end of the handler, not deferred
ProxyExit_NotDeferred(targets, address, outcome) ==
    IF outcome = "panic" THEN targets
    ELSE AddActiveConns(targets, DecTarget(targets, address), -1)

\* the targets when proxyHandler is left: the deferred
\* DecrementActiveConns(target.Address) runs however it is left
ProxyExit(targets, address, outcome) ==
    AddActiveConns(targets, DecTarget(targets, address), -1)

\* proxy.ServeHTTP ends, then the deferred DecrementActiveConns runs
ServeProxy ==
    /\ GwRunning
    /\ gwReq.pc = "proxy"
    /\ \E outcome \in ProxyOutcomes :
          LET targets == ProxyExit(gwReq.upstream.Targets, gwReq.address, outcome)
          IN  /\ gwUpstreams' = SameObject(gwUpstreams, gwReq.upstream, targets)
              /\ gwWatch' = SameObjectInWatch(gwWatch, gwReq.upstream, targets)
              /\ gwReq' = [pc |-> "done", req |-> gwReq.req, route |-> gwReq.route,
                           status |-> outcome, chain |-> TRUE,
                           upstream |-> [gwReq.upstream EXCEPT !.Targets = targets],
                           present |-> gwReq.present, racing |-> gwReq.racing]
    /\ UNCHANGED <<gwRoutes, gwChecked, gwHist>>
    /\ UNCHANGED notGateway

GatewayNext ==
    \/ GatewayStart
    \/ WatchRoutePut
    \/ WatchRouteDelete
    \/ WatchUpstreamPut
    \/ WatchUpstreamDelete
    \/ WatchUpstreamWritten
    \/ HealthTick
    \/ ServeMatch
    \/ ServeGetUpstream
    \/ ServeHandler
    \/ ServeProxy

\* C14: every upstream of the running gateway's registry that has its health
\* check enabled is registered with the health checker (and so is probed on
\* the ticks that follow).
C14_RegistryUpstreamsProbed ==
    gwHist.started
    => \A key \in DOMAIN gwUpstreams :
          gwUpstreams[key].HealthCheck.Enabled => gwUpstreams[key].ID \in gwChecked

\* C15: once the watcher has applied the delete event of a route key, no
\* route that the initial load or a put event of that key installed is
\* left in the route table, so no request can match one.
C15_DeletedKeyLeavesNoRoute ==
    (gwHist.last.type = "delete" /\ gwHist.last.kind = "route")
    => /\ \A id \in IDsOf(gwRoutes.routes) : gwHist.origin[id] # gwHist.last.key
       /\ \A req \in GwRequests :
             MatchIn(gwRoutes, req) = NilRoute
             \/ gwHist.origin[MatchIn(gwRoutes, req).ID] # gwHist.last.key

\* C16: a request that matches no route is answered 404, and only such a
\* request is, with no decorator run and no connection counted; a request
\* whose route names an upstream that the registry does not hold is answered
\* 503; and no request is answered with that 503 when a put of the upstream
\* id has been applied (and the id not deleted since).
C16_DispatchOutcomes ==
    gwReq.pc = "done"
    => /\ gwReq.status = "404 Not Found" <=> gwReq.route = NilRoute
       /\ gwReq.status = "404 Not Found"
          => /\ ~gwReq.chain
             /\ \A key \in DOMAIN gwUpstreams :
                   \A i \in 1..Len(gwUpstreams[key].Targets) :
                      gwUpstreams[key].Targets[i].ActiveConns = 0
       /\ (gwReq.route # NilRoute /\ ~gwReq.present /\ ~gwReq.racing)
          => gwReq.status = "503 Upstream Not Found"
       /\ gwReq.status = "503 Upstream Not Found" => ~gwReq.applied

\* a request for a route was answered 503 for want of its upstream, the
\* watcher then applied a put of that upstream id, and the request after it
\* went through to a target
C16_Witness ==
    /\ gwReq.pc = "done"
    /\ gwReq.status = "proxied"
    /\ gwReq.route.UpstreamID \in gwHist.notFound
    /\ gwReq.route.UpstreamID \in gwHist.applied

\* the active_conns of a list of targets, summed
RECURSIVE SumActiveConns(_)
SumActiveConns(ts) ==
    IF ts = <<>> THEN 0 ELSE ts[1].ActiveConns + SumActiveConns(Tail(ts))

\* C24: while a request is being proxied, the target selected for it counts
\* one connection on the request's upstream object and nothing else is
\* counted; when the request has ended, however proxying ended (answer, 502,
\* panic), the count is back; a request answered 404 or 503 counts nothing.
C24_ActiveConnsBalanced ==
    /\ gwReq.pc = "proxy"
       => /\ SumActiveConns(gwReq.upstream.Targets) = 1
          /\ gwReq.upstream.Targets[IncTarget(gwReq.upstream.Targets, gwReq.address)].ActiveConns = 1
          /\ \A key \in DOMAIN gwUpstreams :
                SumActiveConns(gwUpstreams[key].Targets)
                   = IF gwUpstreams[key].object = gwReq.upstream.object THEN 1 ELSE 0
    /\ gwReq.pc \in {"idle", "lookup", "handler", "done"}
       => \A key \in DOMAIN gwUpstreams : SumActiveConns(gwUpstreams[key].Targets) = 0
    /\ gwReq.pc = "handler" => SumActiveConns(gwReq.upstream.Targets) = 0
    /\ gwReq.pc = "done"
       => /\ gwReq.status \in ProxyOutcomes \cup {"404 Not Found", "503 Upstream Not Found",
                                                    "503 No Healthy Target"}
          /\ gwReq.status \in ProxyOutcomes \cup {"503 No Healthy Target"}
             => SumActiveConns(gwReq.upstream.Targets) = 0

\* a request whose proxying panicked has ended, and the upstream object it
\* counted on is still the one in the registry
C24_Witness ==
    /\ gwReq.pc = "done"
    /\ gwReq.status = "panic"
    /\ \E key \in DOMAIN gwUpstreams : gwUpstreams[key].object = gwReq.upstream.object

(***************************************************************************)
(* Matching one request: the server reads the request (net/http), and      *)
(* Router.Match returns the route and the path parameters.  Paths and      *)
(* header names are sequences of characters.                               *)
(***************************************************************************)
LetterPairs ==
    { <<"a", "A">>, <<"e", "E">>, <<"i", "I">>, <<"k", "K">>,
      <<"p", "P">>, <<"x", "X">>, <<"y", "Y">> }

UpperChar(c) ==
    IF \E p \in LetterPairs : p[1] = c
    THEN (CHOOSE p \in LetterPairs : p[1] = c)[2]
    ELSE c

LowerChar(c) ==
    IF \E p \in LetterPairs : p[2] = c
    THEN (CHOOSE p \in LetterPairs : p[2] = c)[1]
    ELSE c

\* textproto.CanonicalMIMEHeaderKey, which the server applies to every
\* header name it reads: the first letter and every letter after a hyphen
\* in upper case, the others in lower case
CanonicalMIMEHeaderKey(s) ==
    [i \in 1..Len(s) |->
        IF i = 1 \/ s[i - 1] = "-" THEN UpperChar(s[i]) ELSE LowerChar(s[i])]

\* http.Request.Header as the server builds it from the header lines
ReadHeader(lines) ==
    [k \in { CanonicalMIMEHeaderKey(lines[i][1]) : i \in 1..Len(lines) } |->
        LET ls == SelectSeq(lines, LAMBDA l : CanonicalMIMEHeaderKey(l[1]) = k)
        IN  [i \in 1..Len(ls) |-> ls[i][2]]]

ReadRequest(w) == MkRequest(w.Path, w.Method, w.Host, ReadHeader(w.Lines))

\* strings.Trim(s, "/")
RECURSIVE TrimSlash(_)
TrimSlash(s) ==
    IF s = <<>> THEN s
    ELSE IF s[1] = "/" THEN TrimSlash(Tail(s))
    ELSE IF s[Len(s)] = "/" THEN TrimSlash(SubSeq(s, 1, Len(s) - 1))
    ELSE s

\* strings.Split(s, "/")
RECURSIVE SplitSlash(_)
SplitSlash(s) ==
    IF "/" \notin Range(s) THEN <<s>>
    ELSE <<SubSeq(s, 1, IndexOf(s, "/") - 1)>>
         \o SplitSlash(SubSeq(s, IndexOf(s, "/") + 1, Len(s)))

extractPathParams(pattern, path) ==
    LET patternParts == SplitSlash(TrimSlash(pattern))
        pathParts    == SplitSlash(TrimSlash(path))
        isParam(i)   == HasPrefix(patternParts[i], <<":">>)
        paramName(i) == Tail(patternParts[i])
    IN  IF Len(patternParts) # Len(pathParts) THEN EmptyMap
        ELSE [name \in { paramName(i) : i \in { j \in 1..Len(patternParts) : isParam(j) } } |->
                pathParts[CHOOSE i \in 1..Len(patternParts) :
                             /\ isParam(i) /\ paramName(i) = name
                             /\ \A j \in (i + 1)..Len(patternParts) :
                                   ~(isParam(j) /\ paramName(j) = name)]]

\* Router.Match: the route and the parameters (nil, nil without a match; a
\* nil map reads as the empty map)
MatchParams(t, req) ==
    LET route == MatchIn(t, req)
    IN  [called |-> TRUE,
         route  |-> route,
         params |-> IF route = NilRoute THEN EmptyMap
                    ELSE extractPathParams(route.Predicates.Path, req.Path)]

P_u == <<"/", "u">>
P_u_id == <<"/", "u", "/", ":", "i">>
P_u_id_p == <<"/", "u", "/", ":", "i", "/", "p">>
P_id_id == <<"/", ":", "i", "/", ":", "i">>
P_u_1 == <<"/", "u", "/", "1">>
P_u_12 == <<"/", "u", "/", "1", "2">>
P_u_1_s == <<"/", "u", "/", "1", "/">>
P_u_2_p == <<"/", "u", "/", "2", "/", "p">>
P_u_2_x == <<"/", "u", "/", "2", "/", "x">>
P_x_1 == <<"/", "x", "/", "1">>

H_X_API_Key == <<"X", "-", "A", "P", "I", "-", "K", "e", "y">>
H_X_Api_Key == <<"X", "-", "A", "p", "i", "-", "K", "e", "y">>
H_x_api_key == <<"x", "-", "a", "p", "i", "-", "k", "e", "y">>

MatchPredicates ==
    { Pred(P_u_id, PathTypePrefix), Pred(P_u_id, ""), Pred(P_u_id, PathTypeExact),
      Pred(P_u_id_p, PathTypePrefix), Pred(P_id_id, PathTypePrefix),
      Pred(P_u, PathTypePrefix),
      [Pred(P_u, PathTypePrefix) EXCEPT !.Headers = [k \in {H_X_API_Key} |-> "secret"]],
      [Pred(P_u, PathTypePrefix) EXCEPT !.Headers = [k \in {H_X_Api_Key} |-> "secret"]] }

MatchRoutes ==
    { MkRoute("r1", 1, RouteStatusEnabled, pr, "u1") : pr \in MatchPredicates }
    \cup { MkRoute("r1", 1, RouteStatusDisabled, Pred(P_u_id, PathTypePrefix), "u1") }

\* requests as they are on the wire: the header lines in the order sent
WireRequests ==
    { [Path |-> p, Method |-> "GET", Host |-> "h1", Lines |-> ls] :
        p \in { P_u, P_u_id, P_u_1, P_u_12, P_u_1_s, P_u_2_p, P_u_2_x, P_x_1 },
        ls \in { <<>>,
                 << <<H_X_API_Key, "secret">> >>,
                 << <<H_X_Api_Key, "secret">> >>,
                 << <<H_x_api_key, "secret">> >>,
                 << <<H_X_API_Key, "other">> >>,
                 << <<H_X_API_Key, "secret">>, <<H_X_API_Key, "other">> >>,
                 << <<H_x_api_key, "other">>, <<H_X_Api_Key, "secret">> >> } }

NoRequest == [nil |-> TRUE]
NotCalled == [called |-> FALSE]

\* a router that LoadRoutes gave one route
MatchInit ==
    /\ mTable \in UNION { LoadRoutesResult(<<r>>) : r \in MatchRoutes }
    /\ mReq = NoRequest
    /\ mOut = NotCalled

MatchOff ==
    /\ mTable = EmptyTable
    /\ mReq = NoRequest
    /\ mOut = NotCalled

\* the server reads the next request off the connection
ServerRead ==
    /\ \E w \in WireRequests : mReq' = [wire |-> w, req |-> ReadRequest(w)]
    /\ mOut' = NotCalled
    /\ UNCHANGED <<mTable, notMatch>>

\* ServeHTTP calls Router.Match with it
RouterMatch ==
    /\ mReq # NoRequest
    /\ ~mOut.called
    /\ mOut' = MatchParams(mTable, mReq.req)
    /\ UNCHANGED <<mTable, mReq, notMatch>>

MatchNext ==
    \/ ServerRead
    \/ RouterMatch

\* the segments of a pattern or of a request path
Segments(p) == SplitSlash(TrimSlash(p))

IsParamSegment(s) == HasPrefix(s, <<":">>)

HasParamSegment(pattern) ==
    \E i \in 1..Len(Segments(pattern)) : IsParamSegment(Segments(pattern)[i])

\* same number of segments, and the literal segments identical
PatternFits(pattern, path) ==
    /\ Len(Segments(pattern)) = Len(Segments(path))
    /\ \A i \in 1..Len(Segments(pattern)) :
          IsParamSegment(Segments(pattern)[i]) \/ Segments(pattern)[i] = Segments(path)[i]

NoOtherPredicates(r) ==
    /\ r.Predicates.Methods = <<>>
    /\ r.Predicates.Hosts = <<>>
    /\ DOMAIN r.Predicates.Headers = {}

\* C18: an enabled prefix route whose pattern has `:name` segments matches
\* every request path with the same number of segments and the same literal
\* segments, and Match returns each `:name` with the request's segment.
C18_ParamPatternMatches ==
    \A i \in 1..Len(mTable.routes) :
       LET r == mTable.routes[i]
       IN  ( /\ mOut.called
             /\ r.Status = RouteStatusEnabled
             /\ r.Predicates.PathType = PathTypePrefix
             /\ NoOtherPredicates(r)
             /\ HasParamSegment(r.Predicates.Path)
             /\ PatternFits(r.Predicates.Path, mReq.req.Path) )
           => /\ mOut.route = r
              /\ \A k \in 1..Len(Segments(r.Predicates.Path)) :
                    IsParamSegment(Segments(r.Predicates.Path)[k])
                    => /\ Tail(Segments(r.Predicates.Path)[k]) \in DOMAIN mOut.params
                       /\ \E j \in 1..Len(Segments(r.Predicates.Path)) :
                             /\ Segments(r.Predicates.Path)[j] = Segments(r.Predicates.Path)[k]
                             /\ mOut.params[Tail(Segments(r.Predicates.Path)[k])]
                                   = Segments(mReq.req.Path)[j]

\* strings.EqualFold on header names: HTTP header names are case-insensitive
EqualFoldName(a, b) ==
    /\ Len(a) = Len(b)
    /\ \A i \in 1..Len(a) : LowerChar(a[i]) = LowerChar(b[i])

\* the request carries a header named n, and the first one has value v
CarriesHeader(w, n, v) ==
    \E i \in 1..Len(w.Lines) :
       /\ EqualFoldName(w.Lines[i][1], n)
       /\ w.Lines[i][2] = v
       /\ \A j \in 1..(i - 1) : ~EqualFoldName(w.Lines[j][1], n)

\* C19: a route that requires header n with value v matches a request (that
\* meets its other predicates) exactly when the request carries a header
\* named n whose first value is v.
C19_HeaderPredicate ==
    \A i \in 1..Len(mTable.routes) :
       LET r == mTable.routes[i]
       IN  ( /\ mOut.called
             /\ r.Status = RouteStatusEnabled
             /\ DOMAIN r.Predicates.Headers # {}
             /\ matchPath(r, mReq.req.Path)
             /\ matchMethod(r, mReq.req.Method)
             /\ matchHost(r, mReq.req.Host) )
           => ( mOut.route = r
                <=> \A n \in DOMAIN r.Predicates.Headers :
                       CarriesHeader(mReq.wire, n, r.Predicates.Headers[n]) )

(***************************************************************************)
(* The middleware chain: Chain.Then, and one request run through the       *)
(* handler it returns.  A Middleware is its kind and its position in the   *)
(* list NewChain was given; a handler is the final handler or a middleware *)
(* applied to the handler it wraps.                                        *)
(***************************************************************************)
\* longest list of middlewares given to NewChain, the gateway's own chain aside
MaxChain == 3

MiddlewareKinds == {"Recovery", "Logger", "RequestID", "CORS"}

MkChain(kinds) == [i \in 1..Len(kinds) |-> [kind |-> kinds[i], pos |-> i]]

\* NewGateway's globalChain
GlobalChain == MkChain(<<"Recovery", "Logger", "RequestID", "CORS">>)

Chains == { MkChain(ks) : ks \in SeqsUpTo(MiddlewareKinds, MaxChain) } \cup {GlobalChain}

Final == [final |-> TRUE]
NoHandler == [nil |-> TRUE]

\* middlewares[i](handler)
Apply(m, handler) == [final |-> FALSE, mw |-> m, next |-> handler]

RECURSIVE ThenLoop(_, _, _)
ThenLoop(ms, i, handler) ==
    IF i < 1 THEN handler
    ELSE ThenLoop(ms, i - 1, Apply(ms[i], handler))

\* a Then that wraps from the front of the list
Then_FrontToBack(ms, final) ==
    ThenLoop([i \in 1..Len(ms) |-> ms[Len(ms) + 1 - i]], Len(ms), final)

\* Chain.Then
Then(ms, final) == ThenLoop(ms, Len(ms), final)

ChainInit ==
    /\ cChain \in Chains
    /\ cCtx \in { [method |-> m, aborted |-> FALSE] : m \in {"GET", "OPTIONS"} }
    /\ cHandler = NoHandler
    /\ cStack = <<>>
    /\ cPanic = FALSE
    /\ cLog = <<>>

ChainOff ==
    /\ cChain = <<>>
    /\ cCtx = [method |-> "GET", aborted |-> FALSE]
    /\ cHandler = NoHandler
    /\ cStack = <<>>
    /\ cPanic = FALSE
    /\ cLog = <<>>

Top == cStack[Len(cStack)]
Pop == SubSeq(cStack, 1, Len(cStack) - 1)
Event(ev, pos) == [ev |-> ev, pos |-> pos]

\* ServeHTTP: handler := globalChain.Then(finalHandler); handler(ctx)
ServeThen ==
    /\ cHandler = NoHandler
    /\ cHandler' = Then(cChain, Final)
    /\ cStack' = <<[h |-> cHandler', pc |-> "enter"]>>
    /\ UNCHANGED <<cChain, cCtx, cPanic, cLog, notChain>>

\* a middleware's handler runs up to its call of next; CORS answers a
\* preflight request itself and returns
DecoratorEnter ==
    /\ cStack # <<>>
    /\ Top.pc = "enter"
    /\ ~Top.h.final
    /\ IF Top.h.mw.kind = "CORS" /\ cCtx.method = "OPTIONS"
       THEN /\ cLog' = cLog \o <<Event("pre", Top.h.mw.pos), Event("abort", Top.h.mw.pos)>>
            /\ cCtx' = [cCtx EXCEPT !.aborted = TRUE]
            /\ cStack' = Pop
       ELSE /\ cLog' = Append(cLog, Event("pre", Top.h.mw.pos))
            /\ cCtx' = cCtx
            /\ cStack' = Append([cStack EXCEPT ![Len(cStack)].pc = "wait"],
                                [h |-> Top.h.next, pc |-> "enter"])
    /\ UNCHANGED <<cChain, cHandler, cPanic, notChain>>

\* the final handler runs: it returns or it panics
FinalRun ==
    /\ cStack # <<>>
    /\ Top.pc = "enter"
    /\ Top.h.final
    /\ cStack' = Pop
    /\ \E panics \in BOOLEAN :
          /\ cPanic' = panics
          /\ cLog' = IF panics THEN cLog \o <<Event("final", 0), Event("panic", 0)>>
                     ELSE Append(cLog, Event("final", 0))
    /\ UNCHANGED <<cChain, cCtx, cHandler, notChain>>

\* next has returned: the rest of the middleware's handler runs
DecoratorReturn ==
    /\ cStack # <<>>
    /\ Top.pc = "wait"
    /\ ~cPanic
    /\ cLog' = Append(cLog, Event("post", Top.h.mw.pos))
    /\ cStack' = Pop
    /\ UNCHANGED <<cChain, cCtx, cHandler, cPanic, notChain>>

\* a Recovery whose deferred function does not call recover
DecoratorUnwind_NoRecover ==
    /\ cStack # <<>>
    /\ Top.pc = "wait"
    /\ cPanic
    /\ cStack' = Pop
    /\ UNCHANGED <<cChain, cCtx, cHandler, cPanic, cLog, notChain>>

\* next has panicked: Recovery's deferred function recovers, answers 500 and
\* aborts; the other handlers are left without running the rest of their code
DecoratorUnwind ==
    /\ cStack # <<>>
    /\ Top.pc = "wait"
    /\ cPanic
    /\ IF Top.h.mw.kind = "Recovery"
       THEN /\ cLog' = cLog \o <<Event("500", Top.h.mw.pos), Event("post", Top.h.mw.pos)>>
            /\ cCtx' = [cCtx EXCEPT !.aborted = TRUE]
            /\ cPanic' = FALSE
       ELSE UNCHANGED <<cLog, cCtx, cPanic>>
    /\ cStack' = Pop
    /\ UNCHANGED <<cChain, cHandler, notChain>>

ChainNext ==
    \/ ServeThen
    \/ DecoratorEnter
    \/ FinalRun
    \/ DecoratorReturn
    \/ DecoratorUnwind

\* the places of the log where an event of this kind stands
At(ev) == { i \in 1..Len(cLog) : cLog[i].ev = ev }

\* C20: the handler returned by Then enters m1, m2, ... in that order and
\* then the final handler; the code after next runs in the reverse order,
\* m1's last; the final handler runs at most once, and only when every
\* middleware has called next.
C20_OnionOrder ==
    /\ \A i \in At("pre") : cLog[i].pos = Cardinality({ j \in At("pre") : j <= i })
    /\ Cardinality(At("final")) <= 1
    /\ \A f \in At("final") :
          /\ At("abort") = {}
          /\ { cLog[i].pos : i \in { j \in At("pre") : j < f } } = 1..Len(cChain)
          /\ \A i \in At("pre") : i < f
    /\ \A i \in At("post") :
          /\ \A j \in At("pre") \cup At("final") \cup At("abort") : j < i
          /\ \A j \in At("post") : j < i => cLog[j].pos > cLog[i].pos
    /\ (cHandler # NoHandler /\ cStack = <<>> /\ ~cPanic /\ At("post") # {})
          => cLog[Len(cLog)] = Event("post", 1)
    /\ (cHandler # NoHandler /\ cStack = <<>> /\ ~cPanic
            /\ At("abort") = {} /\ \A i \in 1..Len(cChain) : cChain[i].kind = "Logger")
          => cLog = [i \in 1..(2 * Len(cChain) + 1) |->
                        IF i <= Len(cChain) THEN Event("pre", i)
                        ELSE IF i = Len(cChain) + 1 THEN Event("final", 0)
                        ELSE Event("post", 2 * Len(cChain) + 2 - i)]

\* the gateway's own chain has served a request: four middlewares entered,
\* the final handler ran and returned, and the middlewares finished
C20_Witness ==
    /\ cChain = GlobalChain
    /\ cHandler # NoHandler
    /\ cStack = <<>>
    /\ ~cPanic
    /\ Cardinality(At("pre")) = 4
    /\ Cardinality(At("final")) = 1
    /\ Cardinality(At("post")) = 4

\* the handler of a Recovery middleware is back from next, by return or by
\* panic, and leaves the stack
RecoveryLeaves ==
    /\ cStack # <<>>
    /\ Top.pc = "wait"
    /\ Top.h.mw.kind = "Recovery"
    /\ cStack' = Pop

\* C32: when the handler that Recovery wraps panics, Recovery returns to
\* its caller without the panic, having written 500 and set the abort flag;
\* when it does not panic, Recovery writes nothing and leaves the flag.
C32_RecoveryContainsPanic ==
    [][RecoveryLeaves =>
          /\ ~cPanic'
          /\ IF cPanic
             THEN /\ cCtx'.aborted
                  /\ Event("500", Top.h.mw.pos) \in Range(SubSeq(cLog', Len(cLog) + 1, Len(cLog')))
             ELSE /\ cCtx' = cCtx
                  /\ \A i \in (Len(cLog) + 1)..Len(cLog') : cLog'[i].ev # "500"]_vars

\* the final handler panicked under the gateway's chain, Recovery answered
\* 500, and the request is over
C32_Witness ==
    /\ cChain = GlobalChain
    /\ cStack = <<>>
    /\ ~cPanic
    /\ cCtx.aborted
    /\ At("panic") # {}
    /\ cLog[Len(cLog)] = Event("post", 1)
    /\ Event("500", 1) \in Range(cLog)

(***************************************************************************)
(* ConfigWatcher.Start: the initial load of the two prefixes (part_003).   *)
(* A stored value is its bytes: whether json.Unmarshal accepts them, and   *)
(* the entity they decode to.                                              *)
(***************************************************************************)
\* number of keys etcd holds under one prefix when the gateway starts
MaxStored == 2

StoreKeyNames == <<"k1", "k2", "k3", "k4">>

Raw(value) == [decodes |-> TRUE, value |-> value]

Undecodable == [decodes |-> FALSE]

StoredRouteValues ==
    { Raw(GwRoute("r1")), Raw(GwRoute("r2")),
      Raw(MkRoute("r1", 2, RouteStatusEnabled, Pred(RX_a, PathTypeRegex), "u1")),
      Raw(MkRoute("r3", 1, RouteStatusEnabled, Pred(<<>>, PathTypePrefix), "u1")),
      Undecodable }

StoredUpstreamValues ==
    { Raw(GwUpstream("u1", TargetStatusHealthy, TRUE)),
      Raw(GwUpstream("u1", "", FALSE)),
      Raw(GwUpstream("u2", TargetStatusHealthy, FALSE)),
      Raw([GwUpstream("u3", TargetStatusHealthy, TRUE) EXCEPT !.Targets = <<>>]),
      Undecodable }

\* the key/value pairs of a Get with prefix, in key order
StoresOf(values) ==
    { [i \in 1..Len(vs) |-> [key |-> StoreKeyNames[i], value |-> vs[i]]] :
        vs \in SeqsUpTo(values, MaxStored) }

\* Route.FromJSON: the error of Unmarshal, else that of Validate
RouteFromJSONErr(raw) ==
    IF ~raw.decodes THEN "invalid character" ELSE ValidateErr(raw.value)

\* Upstream.FromJSON
UpstreamFromJSONErr(raw) ==
    IF ~raw.decodes THEN "invalid character" ELSE UpstreamValidateErr(raw.value)

\* a loadRoutes whose loop ends at the first value it cannot use
RECURSIVE loadRoutes_Break(_)
loadRoutes_Break(kvs) ==
    IF kvs = <<>> THEN <<>>
    ELSE IF RouteFromJSONErr(kvs[1].value) # NoError THEN <<>>
         ELSE <<Validated(kvs[1].value.value)>> \o loadRoutes_Break(Tail(kvs))

\* loadRoutes, after a Get that succeeded
RECURSIVE loadRoutes(_)
loadRoutes(kvs) ==
    IF kvs = <<>> THEN <<>>
    ELSE IF RouteFromJSONErr(kvs[1].value) # NoError THEN loadRoutes(Tail(kvs))
         ELSE <<Validated(kvs[1].value.value)>> \o loadRoutes(Tail(kvs))

\* loadUpstreams, after a Get that succeeded
RECURSIVE loadUpstreams(_)
loadUpstreams(kvs) ==
    IF kvs = <<>> THEN <<>>
    ELSE IF UpstreamFromJSONErr(kvs[1].value) # NoError THEN loadUpstreams(Tail(kvs))
         ELSE <<UpstreamValidated(kvs[1].value.value)>> \o loadUpstreams(Tail(kvs))

\* loadAllConfigs: for each upstream, upstreams[upstream.ID] = upstream
RECURSIVE AssignAll(_, _)
AssignAll(entries, upstreams) ==
    IF upstreams = <<>> THEN entries
    ELSE AssignAll(MapAssign(entries, upstreams[1].ID, upstreams[1]), Tail(upstreams))

\* NewConfigWatcher with a new router, and a store
StartInit ==
    /\ sStore \in { [routes |-> rs, upstreams |-> us] :
                      rs \in StoresOf(StoredRouteValues), us \in StoresOf(StoredUpstreamValues) }
    /\ sTable = EmptyTable
    /\ sRegistry = NewRegistry.entries
    /\ sStart = [pc |-> "new", reads |-> <<>>]

StartOff ==
    /\ sStore = [routes |-> <<>>, upstreams |-> <<>>]
    /\ sTable = EmptyTable
    /\ sRegistry = NewRegistry.entries
    /\ sStart = [pc |-> "new", reads |-> <<>>]

\* loadAllConfigs, first half: loadRoutes and router.LoadRoutes; the Get
\* fails or not
StartLoadRoutes ==
    /\ sStart.pc = "new"
    /\ \E ok \in BOOLEAN :
          IF ok
          THEN /\ sTable' \in LoadRoutesResult(loadRoutes(sStore.routes))
               /\ sStart' = [pc |-> "routes", reads |-> <<ok>>]
          ELSE /\ sTable' = sTable
               /\ sStart' = [pc |-> "returned", reads |-> <<ok>>,
                             err |-> "failed to load initial configs: failed to load routes"]
    /\ UNCHANGED <<sStore, sRegistry, notStart>>

\* loadAllConfigs, second half: loadUpstreams and the registry; then Start
\* starts the two watch loops and returns nil
StartLoadUpstreams ==
    /\ sStart.pc = "routes"
    /\ \E ok \in BOOLEAN :
          IF ok
          THEN /\ sRegistry' = AssignAll(sRegistry, loadUpstreams(sStore.upstreams))
               /\ sStart' = [pc |-> "returned", reads |-> Append(sStart.reads, ok),
                             err |-> NoError]
          ELSE /\ sRegistry' = sRegistry
               /\ sStart' = [pc |-> "returned", reads |-> Append(sStart.reads, ok),
                             err |-> "failed to load initial configs: failed to load upstreams"]
    /\ UNCHANGED <<sStore, sTable, notStart>>

StartNext ==
    \/ StartLoadRoutes
    \/ StartLoadUpstreams

\* the stored values that decode and validate
UsableRoutes ==
    { sStore.routes[i].value.value :
        i \in { j \in 1..Len(sStore.routes) :
                  /\ sStore.routes[j].value.decodes
                  /\ ValidRoute(Validated(sStore.routes[j].value.value)) } }

UsableUpstreams ==
    { sStore.upstreams[i].value.value :
        i \in { j \in 1..Len(sStore.upstreams) :
                  /\ sStore.upstreams[j].value.decodes
                  /\ UpstreamValidateErr(sStore.upstreams[j].value.value) = NoError } }

\* C21: Start returns an error exactly when a Get failed; when it returns
\* nil, the route table lists the stored routes that decode and validate
\* and no other, and the registry holds, under each id that a stored
\* upstream that decodes and validates has, one such upstream, and no other
\* id.
C21_StartSkipsInvalidEntries ==
    sStart.pc = "returned"
    => /\ sStart.err # NoError <=> FALSE \in Range(sStart.reads)
       /\ sStart.err = NoError
          => /\ { [r EXCEPT !.Predicates.PathRegex = NilRegex] : r \in Range(sTable.routes) }
                   = UsableRoutes
             /\ DOMAIN sTable.indexMap = { r.ID : r \in UsableRoutes }
             /\ DOMAIN sRegistry = { u.ID : u \in UsableUpstreams }
             /\ \A id \in DOMAIN sRegistry :
                   \E u \in UsableUpstreams :
                      /\ u.ID = id
                      /\ sRegistry[id].Targets
                            = [i \in 1..Len(u.Targets) |->
                                  [u.Targets[i] EXCEPT
                                      !.Status = IF @ = "" THEN TargetStatusUnknown ELSE @]]

\* Start returned nil over a store that holds, under each prefix, a value
\* that is usable and one that is not
C21_Witness ==
    /\ sStart.pc = "returned"
    /\ sStart.err = NoError
    /\ Len(sTable.routes) = 1
    /\ Len(sStore.routes) = 2
    /\ DOMAIN sRegistry # {}
    /\ \E i \in 1..Len(sStore.upstreams) : ~sStore.upstreams[i].value.decodes

(***************************************************************************)
(* Health status across a re-publish: the watcher's put events for one     *)
(* upstream id, the health checker's status updates and the selections of  *)
(* proxyHandler (part_003, upstream.go, health_checker.go, main.go)        *)
(***************************************************************************)
RepubStatuses == {TargetStatusHealthy, TargetStatusUnhealthy, ""}

\* the values put under /gateway/upstreams/u1: two targets, each with the
\* status its JSON carries
RepubValues ==
    { [ID |-> "u1", Type |-> LoadBalanceRandom,
       Targets |-> <<MkTarget("10.0.0.1:80", 1, s1, 0), MkTarget("10.0.0.2:80", 1, s2, 0)>>,
       HealthCheck |-> MkHealthCheck(TRUE, 2, 3), object |-> 0] :
        s1 \in RepubStatuses, s2 \in RepubStatuses }

StatusSetUnhealthy(ts) ==
    { ts[i].Address : i \in { j \in 1..Len(ts) : ts[j].Status = TargetStatusUnhealthy } }

RepubInit ==
    /\ pHeap = <<>>
    /\ pReg = 0
    /\ pChecked = 0
    /\ pDown = {}
    /\ pSel = [pc |-> "idle"]
    /\ pEvents = 0

RepubOff == RepubInit

\* handleUpstreamEvent, put: a new Upstream object is decoded and takes the
\* place of the old one in the registry
RepubPut ==
    /\ pEvents < MaxWatchEvents
    /\ \E value \in RepubValues :
          /\ UpstreamValidateErr(value) = NoError
          /\ pHeap' = Append(pHeap, UpstreamValidated(value))
          /\ pDown' = pDown \cup StatusSetUnhealthy(value.Targets)
    /\ pReg' = Len(pHeap) + 1
    /\ pEvents' = pEvents + 1
    /\ UNCHANGED <<pChecked, pSel, notRepub>>

\* HealthChecker.AddUpstream with the upstream the registry holds
RepubAddUpstream ==
    /\ pReg # 0
    /\ pChecked # pReg
    /\ pChecked' = pReg
    /\ UNCHANGED <<pHeap, pReg, pDown, pSel, pEvents, notRepub>>

\* updateTargetStatus reaches a threshold on the upstream it was given:
\* upstream.UpdateTargetStatus(target.Address, status)
RepubUpdateTargetStatus ==
    /\ pChecked # 0
    /\ \E k \in 1..Len(pHeap[pChecked].Targets),
          status \in {TargetStatusHealthy, TargetStatusUnhealthy} :
          /\ pHeap[pChecked].Targets[k].Status # status
          /\ pHeap' = [pHeap EXCEPT ![pChecked].Targets =
                          UpdateTargetStatusIn(@, pHeap[pChecked].Targets[k].Address, status)]
          /\ pDown' = IF status = TargetStatusUnhealthy
                      THEN pDown \cup {pHeap[pChecked].Targets[k].Address}
                      ELSE pDown \ {pHeap[pChecked].Targets[k].Address}
    /\ UNCHANGED <<pReg, pChecked, pSel, pEvents, notRepub>>

\* ServeHTTP and proxyHandler for a route of u1: GetUpstream, a new
\* balancer, Select
RepubSelect ==
    /\ pReg # 0
    /\ \E res \in LBSelect(NewLoadBalancer(pHeap[pReg].Type), pHeap[pReg].Targets,
                           "1.2.3.4:5000") :
          pSel' = [pc |-> "done", err |-> res.err, down |-> pDown,
                   address |-> IF res.err = NoError
                               THEN pHeap[pReg].Targets[res.target].Address ELSE ""]
    /\ UNCHANGED <<pHeap, pReg, pChecked, pDown, pEvents, notRepub>>

RepubNext ==
    \/ RepubPut
    \/ RepubAddUpstream
    \/ RepubUpdateTargetStatus
    \/ RepubSelect

\* C22: a selection for the upstream id never returns a target whose status
\* was set to unhealthy before the selection started, unless a health
\* transition has set it healthy since; a put event of the id in between
\* does not change that.
C22_UnhealthyStaysExcluded ==
    (pSel.pc = "done" /\ pSel.err = NoError) => pSel.address \notin pSel.down

(***************************************************************************)
(* One WeightedBalancer over a fixed set of targets (part_004).  Weights   *)
(* and sums are Go ints, 64 bits wide: a value of the model is             *)
(* r + q * 2^62 modulo 2^64, with r small and q in 0..3, read as signed.   *)
(***************************************************************************)
\* number of Select calls on the balancer
MaxWeightedSelects == 7

GoInt(q, r) == [q |-> q, r |-> r]

\* the weight 4611686018427387904
Weight2to62 == GoInt(1, 0)

GoAdd(x, y) == GoInt((x.q + y.q) % 4, x.r + y.r)

\* the signed multiple of 2^62 that q stands for
SignedQ(x) == IF x.q >= 2 THEN x.q - 4 ELSE x.q

GoLess(x, y) == SignedQ(x) < SignedQ(y) \/ (SignedQ(x) = SignedQ(y) /\ x.r < y.r)

\* x % t for a small x that is not negative and t # 0: a t beyond 2^62 in
\* size leaves x as it is
GoRem(x, t) == IF t.q = 0 THEN GoInt(0, x.r % t.r) ELSE x

\* totalWeight += target.Weight, over the healthy targets
RECURSIVE TotalWeight(_, _)
TotalWeight(ts, healthy) ==
    IF healthy = <<>> THEN GoInt(0, 0)
    ELSE GoAdd(TotalWeight(ts, SubSeq(healthy, 1, Len(healthy) - 1)),
               ts[healthy[Len(healthy)]].Weight)

\* the scan of WeightedBalancer.Select: the first target with
\* wb.current < sum, and targets[0] when the loop ends without one
WeightedScan(ts, healthy, current) ==
    LET sum(k) == TotalWeight(ts, SubSeq(healthy, 1, k))
    IN  IF \E k \in 1..Len(healthy) : GoLess(current, sum(k))
        THEN healthy[CHOOSE k \in 1..Len(healthy) :
                        GoLess(current, sum(k)) /\ \A j \in 1..(k - 1) : ~GoLess(current, sum(j))]
        ELSE healthy[1]

WtTarget(address, weight, status) ==
    [Address |-> address, Weight |-> weight, Status |-> status]

\* validated target lists: every weight is at least 1
WeightedTargetLists ==
    { <<WtTarget("a1", GoInt(0, w1), s1), WtTarget("a2", GoInt(0, w2), TargetStatusHealthy),
        WtTarget("a3", GoInt(0, w3), TargetStatusHealthy)>> :
        w1 \in 1..3, w2 \in 1..2, w3 \in 1..2,
        s1 \in {TargetStatusHealthy, TargetStatusUnhealthy} }
    \cup
    { [i \in 1..n |-> WtTarget(<<"a1", "a2", "a3", "a4">>[i], Weight2to62, TargetStatusHealthy)] :
        n \in 1..4 }

\* NewWeightedBalancer
WeightedInit ==
    /\ wtTargets \in WeightedTargetLists
    /\ wtCurrent = GoInt(0, 0)
    /\ wtLog = <<>>
    /\ wtPanic = FALSE

WeightedOff ==
    /\ wtTargets = <<>>
    /\ wtCurrent = GoInt(0, 0)
    /\ wtLog = <<>>
    /\ wtPanic = FALSE

\* WeightedBalancer.Select
WeightedSelect ==
    /\ ~wtPanic
    /\ Len(wtLog) < MaxWeightedSelects
    /\ LET healthy == GetHealthyTargets(wtTargets)
           total   == TotalWeight(wtTargets, healthy)
           cur     == GoRem(GoAdd(wtCurrent, GoInt(0, 1)), total)
       IN  IF Len(healthy) = 0
           THEN /\ wtLog' = Append(wtLog, [err |-> ErrNoHealthyTarget])
                /\ UNCHANGED <<wtCurrent, wtPanic>>
           ELSE IF total = GoInt(0, 0)
           THEN /\ wtPanic' = TRUE
                /\ UNCHANGED <<wtCurrent, wtLog>>
           ELSE /\ wtCurrent' = cur
                /\ wtLog' = Append(wtLog, [err |-> NoError, current |-> cur,
                                           target |-> WeightedScan(wtTargets, healthy, cur)])
                /\ wtPanic' = FALSE
    /\ UNCHANGED <<wtTargets, notWeighted>>

WeightedNext ==
    \/ WeightedSelect

\* the healthy targets and their weights, when every weight is small
SmallWeights == \A i \in 1..Len(wtTargets) : wtTargets[i].Weight.q = 0

HealthyOf == { i \in 1..Len(wtTargets) : wtTargets[i].Status = TargetStatusHealthy }

RECURSIVE SumSmall(_)
SumSmall(S) ==
    IF S = {} THEN 0
    ELSE LET i == CHOOSE j \in S : TRUE
         IN  wtTargets[i].Weight.r + SumSmall(S \ {i})

\* in W consecutive Selects every target is returned as often as its weight,
\* current stays in [0, W), and each Select returns the first target whose
\* cumulative weight exceeds current
C23_WhenWeightsAreSmall ==
    (SmallWeights /\ HealthyOf # {})
    => LET W == SumSmall(HealthyOf)
       IN  /\ wtCurrent.q = 0 /\ wtCurrent.r \in 0..(W - 1)
           /\ \A n \in 1..Len(wtLog) :
                 /\ wtLog[n].current = GoInt(0, n % W)
                 /\ wtLog[n].target \in HealthyOf
                 /\ SumSmall({ i \in HealthyOf : i < wtLog[n].target }) <= wtLog[n].current.r
                 /\ wtLog[n].current.r < SumSmall({ i \in HealthyOf : i <= wtLog[n].target })
           /\ \A s \in 1..(Len(wtLog) - W + 1) :
                 \A i \in HealthyOf :
                    Cardinality({ n \in s..(s + W - 1) : wtLog[n].target = i })
                       = wtTargets[i].Weight.r

\* C23: on one WeightedBalancer with a fixed healthy set, current stays in
\* [0, W), each Select returns the first target whose cumulative weight
\* exceeds the incremented current, any W consecutive Selects return each
\* target as often as its weight, and no Select on a validated upstream
\* divides by zero.
C23_WeightedSelect ==
    /\ ~wtPanic
    /\ C23_WhenWeightsAreSmall

(***************************************************************************)
(* The health checker's clock: the ticker of runHealthCheckLoop, the skip  *)
(* guard of checkUpstream and the LastCheckAt that updateTargetStatus sets *)
(* (health_checker.go).  Time is counted in seconds.                       *)
(***************************************************************************)
\* the last second of the clock
MaxClock == 15

\* time.NewTicker(5 * time.Second)
TickerPeriod == 5

\* the targets of the upstream
ProbeTargetCount == 2

\* the zero time.Time of a target that was never probed
ZeroTime == -1

\* validated health checks: an interval below and one above the ticker's
\* period, and timeouts shorter than both
ProbeChecks ==
    { [Interval |-> i, Timeout |-> t] : i \in {4, 7}, t \in {1, 2} }

\* time.Since(target.LastCheckAt), for a target that was probed
Since(t) == hpNow - t

\* a guard that skips nothing
SkipGuard_Never(lastCheckAt, interval) == FALSE

\* checkUpstream: time.Since(target.LastCheckAt) < Interval * time.Second;
\* time.Since of the zero time is the largest Duration, above every interval
\* of the checks here
SkipGuard(lastCheckAt, interval) ==
    lastCheckAt # ZeroTime /\ Since(lastCheckAt) < interval

\* NewHealthChecker, AddUpstream of one upstream and Start
ProbeInit ==
    /\ hpCheck \in ProbeChecks
    /\ hpNow = 0
    /\ hpPending = FALSE
    /\ hpLoop = [pc |-> "waiting"]
    /\ hpLastCheckAt = [k \in 1..ProbeTargetCount |-> ZeroTime]
    /\ hpStarts = [k \in 1..ProbeTargetCount |-> <<>>]

ProbeOff ==
    /\ hpCheck = [Interval |-> 10, Timeout |-> 5]
    /\ hpNow = 0
    /\ hpPending = FALSE
    /\ hpLoop = [pc |-> "waiting"]
    /\ hpLastCheckAt = <<>>
    /\ hpStarts = <<>>

\* a second passes; the ticker puts a tick in its channel every period, and
\* drops it when the channel still holds one; a probe does not outlast its
\* timeout
ClockSecond ==
    /\ hpNow < MaxClock
    /\ hpLoop.pc = "probing" => hpNow - hpLoop.start < hpCheck.Timeout
    /\ hpNow' = hpNow + 1
    /\ hpPending' = (hpPending \/ hpNow' % TickerPeriod = 0)
    /\ UNCHANGED <<hpCheck, hpLoop, hpLastCheckAt, hpStarts, notProbe>>

\* runHealthCheckLoop takes the tick: checkAllUpstreams, checkUpstream
SweepStart ==
    /\ hpLoop.pc = "waiting"
    /\ hpPending
    /\ hpPending' = FALSE
    /\ hpLoop' = [pc |-> "guard", k |-> 1]
    /\ UNCHANGED <<hpCheck, hpNow, hpLastCheckAt, hpStarts, notProbe>>

AfterTarget(k) ==
    IF k < ProbeTargetCount THEN [pc |-> "guard", k |-> k + 1] ELSE [pc |-> "waiting"]

\* checkUpstream at a target: the skip guard, and checkTarget starts
ProbeOrSkip ==
    /\ hpLoop.pc = "guard"
    /\ IF SkipGuard(hpLastCheckAt[hpLoop.k], hpCheck.Interval)
       THEN /\ hpLoop' = AfterTarget(hpLoop.k)
            /\ UNCHANGED hpStarts
       ELSE /\ hpLoop' = [pc |-> "probing", k |-> hpLoop.k, start |-> hpNow]
            /\ hpStarts' = [hpStarts EXCEPT ![hpLoop.k] = Append(@, hpNow)]
    /\ UNCHANGED <<hpCheck, hpNow, hpPending, hpLastCheckAt, notProbe>>

\* checkTarget returns and updateTargetStatus sets LastCheckAt
ProbeEnd ==
    /\ hpLoop.pc = "probing"
    /\ hpLastCheckAt' = [hpLastCheckAt EXCEPT ![hpLoop.k] = hpNow]
    /\ hpLoop' = AfterTarget(hpLoop.k)
    /\ UNCHANGED <<hpCheck, hpNow, hpPending, hpStarts, notProbe>>

ProbeNext ==
    \/ ClockSecond
    \/ SweepStart
    \/ ProbeOrSkip
    \/ ProbeEnd

MaxRouteEvents == 3

\* events that share one response, and responses that wait in a channel
MaxBatch == 2

LoopRouteKeys == {"r1"}

PutEvent(key, raw) == [type |-> "put", key |-> key, value |-> raw]

DeleteEvent(key) == [type |-> "delete", key |-> key]

\* route events: two values of route r1, a value whose JSON id is not the
\* key, a value that does not validate, bytes that do not decode, a delete
RouteEvents ==
    { PutEvent("r1", Raw(GwRoute("r1"))),
      PutEvent("r1", Raw(MkRoute("r1", 2, RouteStatusEnabled, Pred(P_ax, PathTypePrefix), "u1"))),
      PutEvent("r1", Raw(GwRoute("r2"))),
      PutEvent("r1", Raw(MkRoute("r1", 1, RouteStatusEnabled, Pred(<<>>, PathTypePrefix), "u1"))),
      PutEvent("r1", Undecodable),
      DeleteEvent("r1") }

\* a WatchResponse: Err() and Events
ErrResponse == [err |-> TRUE, events |-> <<>>]

\* what a receive from a closed channel gives: the zero WatchResponse
ZeroResponse == [err |-> FALSE, events |-> <<>>]

\* client.Watch on a live context
NewWatchChan == [queue |-> <<>>, closed |-> FALSE]

\* the channel with one more event: in a response of its own, or in the
\* last response still waiting
ChanWithEvent(chan, e, batch) ==
    IF batch
    THEN [chan EXCEPT !.queue[Len(chan.queue)].events = Append(@, e)]
    ELSE [chan EXCEPT !.queue = Append(@, [err |-> FALSE, events |-> <<e>>])]

CanSend(chan, batch) ==
    /\ ~chan.closed
    /\ IF batch
       THEN /\ chan.queue # <<>>
            /\ Len(chan.queue[Len(chan.queue)].events) < MaxBatch
       ELSE Len(chan.queue) < MaxBatch

\* the watch fails: a response with an error, after which the client closes
\* the channel
ChanWithError(chan) == [queue |-> Append(chan.queue, ErrResponse), closed |-> TRUE]

\* case watchResp := <-watchChan is ready
CanReceive(chan) == chan.queue # <<>> \/ chan.closed

\* the oldest response, or the zero response of a closed channel
Received(chan) == IF chan.queue # <<>> THEN Head(chan.queue) ELSE ZeroResponse

ChanAfterReceive(chan) ==
    [chan EXCEPT !.queue = IF @ # <<>> THEN Tail(@) ELSE @]

\* watchRoutes after the receive: an error sends the loop to time.Sleep,
\* else it ranges over the events
LoopAfterReceive(resp) ==
    IF resp.err THEN [pc |-> "sleeping", events |-> <<>>]
    ELSE [pc |-> "handling", events |-> resp.events]

\* handleRouteEvent
ApplyRouteEvent(t, e) ==
    IF e.type = "delete" THEN { DeleteRouteResult(t, e.key) }
    ELSE IF RouteFromJSONErr(e.value) # NoError THEN { t }
    ELSE AddRouteResult(t, Validated(e.value.value))

\* NewConfigWatcher and Start on an empty store: watchRoutes at its select
EventsInit ==
    /\ evChan = NewWatchChan
    /\ evLoop = [pc |-> "select", events |-> <<>>]
    /\ evTable = EmptyTable
    /\ evHist = [log |-> <<>>, done |-> 0]

EventsOff == EventsInit

\* etcd sends a route event
RouteEventSent ==
    \E e \in RouteEvents, batch \in BOOLEAN :
       /\ Len(evHist.log) < MaxRouteEvents
       /\ CanSend(evChan, batch)
       /\ evChan' = ChanWithEvent(evChan, e, batch)
       /\ evHist' = [evHist EXCEPT !.log = Append(@, e)]
       /\ UNCHANGED <<evLoop, evTable, notEvents>>

RouteWatchFails ==
    /\ ~evChan.closed
    /\ Len(evChan.queue) < MaxBatch
    /\ evChan' = ChanWithError(evChan)
    /\ UNCHANGED <<evLoop, evTable, evHist, notEvents>>

\* watchRoutes, case watchResp := <-watchChan
WatchRoutesReceive ==
    /\ evLoop.pc = "select"
    /\ CanReceive(evChan)
    /\ evLoop' = LoopAfterReceive(Received(evChan))
    /\ evChan' = ChanAfterReceive(evChan)
    /\ UNCHANGED <<evTable, evHist, notEvents>>

\* for _, event := range watchResp.Events { w.handleRouteEvent(event) }
WatchRoutesHandle ==
    /\ evLoop.pc = "handling"
    /\ evLoop.events # <<>>
    /\ evLoop' = [evLoop EXCEPT !.events = Tail(@)]
    /\ evTable' \in ApplyRouteEvent(evTable, Head(evLoop.events))
    /\ evHist' = [evHist EXCEPT !.done = @ + 1]
    /\ UNCHANGED <<evChan, notEvents>>

\* the range is over: back to the select
WatchRoutesAgain ==
    /\ evLoop.pc = "handling"
    /\ evLoop.events = <<>>
    /\ evLoop' = [evLoop EXCEPT !.pc = "select"]
    /\ UNCHANGED <<evChan, evTable, evHist, notEvents>>

\* time.Sleep is over: watchChan = w.client.Watch(w.ctx, ...); continue
WatchRoutesRewatch ==
    /\ evLoop.pc = "sleeping"
    /\ evLoop' = [evLoop EXCEPT !.pc = "select"]
    /\ evChan' = NewWatchChan
    /\ UNCHANGED <<evTable, evHist, notEvents>>

EventsNext ==
    \/ RouteEventSent
    \/ RouteWatchFails
    \/ WatchRoutesReceive
    \/ WatchRoutesHandle
    \/ WatchRoutesAgain
    \/ WatchRoutesRewatch

\* what the events applied so far leave under a key: the route of the last
\* valid put that no delete follows
RECURSIVE HeldAfter(_, _)
HeldAfter(log, key) ==
    IF log = <<>> THEN NilRoute
    ELSE LET e    == log[Len(log)]
             rest == SubSeq(log, 1, Len(log) - 1)
         IN  IF e.key # key THEN HeldAfter(rest, key)
             ELSE IF e.type = "delete" THEN NilRoute
             ELSE IF RouteFromJSONErr(e.value) # NoError THEN HeldAfter(rest, key)
             ELSE Validated(e.value.value)

AppliedLog == SubSeq(evHist.log, 1, evHist.done)

\* every value applied so far that decodes carries the id of its key
KeyIsID ==
    \A i \in 1..Len(AppliedLog) :
       (AppliedLog[i].type = "put" /\ AppliedLog[i].value.decodes)
       => AppliedLog[i].value.value.ID = AppliedLog[i].key

\* C28: the events of the route stream are applied one at a time in the
\* order of delivery: after any number of them, the table holds under a
\* route id the route of the last valid put of that id that no delete
\* follows, and nothing when the last event of the id is a delete; a put
\* that does not decode or validate changes nothing.
C28_RouteEventsInOrder ==
    \A key \in LoopRouteKeys : GetRouteIn(evTable, key) = HeldAfter(AppliedLog, key)

\* the same, for events whose values carry the id of their key
C28_WhenKeyIsID == KeyIsID => C28_RouteEventsInOrder

(***************************************************************************)
(* The two watch loops of the ConfigWatcher and Stop (part_003)            *)
(***************************************************************************)
\* number of events etcd sends on the two streams
MaxDelivered == 2

Streams == {"routes", "upstreams"}

LoopEvents(s) ==
    IF s = "routes"
    THEN { PutEvent("r1", Raw(GwRoute("r1"))), DeleteEvent("r1") }
    ELSE { PutEvent("u1", Raw(GwUpstream("u1", TargetStatusHealthy, FALSE))),
           DeleteEvent("u1") }

\* client.Watch on a cancelled context: the client closes the channel, with
\* or without a last response that carries the error, now or later
CancelledWatchChans ==
    { [queue |-> <<>>, closed |-> TRUE], ChanWithError(NewWatchChan), NewWatchChan }

\* handleUpstreamEvent
ApplyUpstreamEvent(entries, e) ==
    IF e.type = "delete" THEN MapDelete(entries, e.key)
    ELSE IF UpstreamFromJSONErr(e.value) # NoError THEN entries
    ELSE MapAssign(entries, e.key, UpstreamValidated(e.value.value))

\* NewConfigWatcher and Start on an empty store: both loops at their select
LoopsInit ==
    /\ wlCtx = "live"
    /\ wlLoop = [s \in Streams |-> [pc |-> "select", events |-> <<>>]]
    /\ wlChan = [s \in Streams |-> NewWatchChan]
    /\ wlTable = EmptyTable
    /\ wlReg = NewRegistry.entries
    /\ wlHist = [delivered |-> 0, done |-> 0, atStop |-> [s \in Streams |-> "running"]]

LoopsOff == LoopsInit

\* etcd sends an event on a stream
DeliverEvent ==
    \E s \in Streams : \E e \in LoopEvents(s), batch \in BOOLEAN :
       /\ wlHist.delivered < MaxDelivered
       /\ CanSend(wlChan[s], batch)
       /\ wlChan' = [wlChan EXCEPT ![s] = ChanWithEvent(@, e, batch)]
       /\ wlHist' = [wlHist EXCEPT !.delivered = @ + 1]
       /\ UNCHANGED <<wlCtx, wlLoop, wlTable, wlReg, notLoops>>

DeliverError ==
    \E s \in Streams :
       /\ ~wlChan[s].closed
       /\ Len(wlChan[s].queue) < MaxBatch
       /\ wlChan' = [wlChan EXCEPT ![s] = ChanWithError(@)]
       /\ UNCHANGED <<wlCtx, wlLoop, wlTable, wlReg, wlHist, notLoops>>

\* the client closes a channel
CloseChan ==
    \E s \in Streams :
       /\ ~wlChan[s].closed
       /\ wlChan' = [wlChan EXCEPT ![s].closed = TRUE]
       /\ UNCHANGED <<wlCtx, wlLoop, wlTable, wlReg, wlHist, notLoops>>

\* ConfigWatcher.Stop: w.cancel()
Stop ==
    /\ wlCtx = "live"
    /\ wlCtx' = "cancelled"
    /\ wlHist' = [wlHist EXCEPT !.atStop = [s \in Streams |-> wlLoop[s].pc]]
    /\ UNCHANGED <<wlLoop, wlChan, wlTable, wlReg, notLoops>>

\* a select that takes ctx.Done only when the channel has nothing to give
SelectDone_ChannelFirst(s) ==
    /\ wlLoop[s].pc = "select"
    /\ wlCtx = "cancelled"
    /\ ~CanReceive(wlChan[s])
    /\ wlLoop' = [wlLoop EXCEPT ![s].pc = "exited"]
    /\ UNCHANGED <<wlCtx, wlChan, wlTable, wlReg, wlHist, notLoops>>

\* select, case <-w.ctx.Done(): return
SelectDone(s) ==
    /\ wlLoop[s].pc = "select"
    /\ wlCtx = "cancelled"
    /\ wlLoop' = [wlLoop EXCEPT ![s].pc = "exited"]
    /\ UNCHANGED <<wlCtx, wlChan, wlTable, wlReg, wlHist, notLoops>>

\* select, case watchResp := <-watchChan
SelectReceive(s) ==
    /\ wlLoop[s].pc = "select"
    /\ CanReceive(wlChan[s])
    /\ wlLoop' = [wlLoop EXCEPT ![s] = LoopAfterReceive(Received(wlChan[s]))]
    /\ wlChan' = [wlChan EXCEPT ![s] = ChanAfterReceive(@)]
    /\ UNCHANGED <<wlCtx, wlTable, wlReg, wlHist, notLoops>>

\* for _, event := range watchResp.Events: the next event of the response
HandleEvent(s) ==
    /\ wlLoop[s].pc = "handling"
    /\ wlLoop[s].events # <<>>
    /\ wlLoop' = [wlLoop EXCEPT ![s].events = Tail(@)]
    /\ IF s = "routes"
       THEN /\ wlTable' \in ApplyRouteEvent(wlTable, Head(wlLoop[s].events))
            /\ UNCHANGED wlReg
       ELSE /\ wlReg' = ApplyUpstreamEvent(wlReg, Head(wlLoop[s].events))
            /\ UNCHANGED wlTable
    /\ wlHist' = [wlHist EXCEPT !.done = @ + 1]
    /\ UNCHANGED <<wlCtx, wlChan, notLoops>>

\* the range is over: back to the select
ResponseDone(s) ==
    /\ wlLoop[s].pc = "handling"
    /\ wlLoop[s].events = <<>>
    /\ wlLoop' = [wlLoop EXCEPT ![s].pc = "select"]
    /\ UNCHANGED <<wlCtx, wlChan, wlTable, wlReg, wlHist, notLoops>>

\* time.Sleep is over: watchChan = w.client.Watch(w.ctx, ...); continue
Rewatch(s) ==
    /\ wlLoop[s].pc = "sleeping"
    /\ wlLoop' = [wlLoop EXCEPT ![s].pc = "select"]
    /\ \E c \in (IF wlCtx = "live" THEN {NewWatchChan} ELSE CancelledWatchChans) :
          wlChan' = [wlChan EXCEPT ![s] = c]
    /\ UNCHANGED <<wlCtx, wlTable, wlReg, wlHist, notLoops>>

LoopsNext ==
    \/ DeliverEvent
    \/ DeliverError
    \/ CloseChan
    \/ Stop
    \/ \E s \in Streams : SelectDone(s)
    \/ \E s \in Streams : SelectReceive(s)
    \/ \E s \in Streams : HandleEvent(s)
    \/ \E s \in Streams : ResponseDone(s)
    \/ \E s \in Streams : Rewatch(s)

\* the scheduler runs a loop that can take a step, and a select with more
\* than one ready case picks among them at random, so that a case that is
\* ready again and again is taken
LoopsFairness ==
    \A s \in Streams :
       /\ SF_vars(SelectDone(s))
       /\ WF_vars(HandleEvent(s))
       /\ WF_vars(ResponseDone(s))
       /\ WF_vars(Rewatch(s))

LoopsExited == \A s \in Streams : wlLoop[s].pc = "exited"

\* C29: after Stop has cancelled the context both watch loops exit, also
\* from the sleep after an error and on a closed channel, and a loop that
\* has exited applies no event to the table or the registry.
C29_LoopsExitAfterStop ==
    /\ (wlCtx = "cancelled") ~> LoopsExited
    /\ [][/\ wlLoop["routes"].pc = "exited" => wlTable' = wlTable
          /\ wlLoop["upstreams"].pc = "exited" => wlReg' = wlReg]_vars

\* both loops have exited; Stop found the route loop asleep after an error,
\* and the upstream loop's channel is closed
C29_Witness ==
    /\ LoopsExited
    /\ wlHist.atStop["routes"] = "sleeping"
    /\ wlChan["upstreams"].closed
    /\ wlHist.done > 0

(***************************************************************************)
(* The Timeout decorator (timeout.go): the downstream handler runs in a    *)
(* goroutine of its own and the decorator selects on its end and on a      *)
(* timer.                                                                  *)
(***************************************************************************)
\* requests that go through the decorator, one after another
MaxTimeoutRequests == 2

\* what the downstream handler does with a request
DownstreamBehaviours == {"returns", "hangs", "panics"}

StatusGatewayTimeout == 504

Idle == [pc |-> "idle"]

WriteOf(by, kind, what) == [by |-> by, kind |-> kind, what |-> what]

TimeoutInit ==
    /\ tmReq = Idle
    /\ tmLog = <<>>
    /\ tmCrashed = FALSE

TimeoutOff == TimeoutInit

InTimeout == tmReq.pc # "idle" /\ ~tmCrashed

\* the decorator is called: done := make(chan struct{}) and the go statement
TimeoutCall ==
    /\ tmReq.pc = "idle"
    /\ ~tmCrashed
    /\ Len(tmLog) < MaxTimeoutRequests
    /\ \E b \in DownstreamBehaviours :
          tmReq' = [pc |-> "spawned", behaviour |-> b, down |-> "running",
                    timer |-> "unset", first |-> "none", writes |-> <<>>,
                    aborted |-> FALSE, raced |-> FALSE]
    /\ UNCHANGED <<tmLog, tmCrashed, notTimeout>>

\* next(ctx) writes its response
DownstreamWrite ==
    /\ InTimeout
    /\ tmReq.down = "running"
    /\ \A i \in 1..Len(tmReq.writes) : tmReq.writes[i].by # "downstream"
    /\ tmReq' = [tmReq EXCEPT !.writes = Append(@, WriteOf("downstream", "status", 200))]
    /\ UNCHANGED <<tmLog, tmCrashed, notTimeout>>

\* next(ctx) returns and close(done); a decorator parked in the select is
\* woken with the case of done
DownstreamReturn ==
    /\ InTimeout
    /\ tmReq.down = "running"
    /\ tmReq.behaviour = "returns"
    /\ tmReq' = [tmReq EXCEPT !.down = "returned",
                              !.first = IF @ = "none" THEN "completed" ELSE @,
                              !.pc = IF @ = "parked" THEN "case done" ELSE @]
    /\ UNCHANGED <<tmLog, tmCrashed, notTimeout>>

\* next(ctx) panics in the goroutine the decorator started: no deferred
\* recover is on that goroutine's stack, and the program exits
DownstreamPanic ==
    /\ InTimeout
    /\ tmReq.down = "running"
    /\ tmReq.behaviour = "panics"
    /\ tmReq' = [tmReq EXCEPT !.down = "panicked"]
    /\ tmCrashed' = TRUE
    /\ UNCHANGED <<tmLog, notTimeout>>

\* the select is entered: time.After(timeout) starts the timer
SelectEnter ==
    /\ InTimeout
    /\ tmReq.pc = "spawned"
    /\ tmReq' = [tmReq EXCEPT !.pc = "polling", !.timer = "set"]
    /\ UNCHANGED <<tmLog, tmCrashed, notTimeout>>

\* the deadline: the timer sends on its channel; a decorator parked in the
\* select is woken with the case of the timer
DeadlineExpires ==
    /\ InTimeout
    /\ tmReq.timer = "set"
    /\ tmReq' = [tmReq EXCEPT !.timer = "fired",
                              !.first = IF @ = "none" THEN "deadline" ELSE @,
                              !.pc = IF @ = "parked" THEN "case timer" ELSE @]
    /\ UNCHANGED <<tmLog, tmCrashed, notTimeout>>

\* the cases of the select that can proceed
ReadyCases(req) ==
    (IF req.down = "returned" THEN {"case done"} ELSE {})
    \cup (IF req.timer = "fired" THEN {"case timer"} ELSE {})

\* the select looks at its cases: it takes one of those that are ready,
\* picked at random, else it parks
SelectPoll ==
    /\ InTimeout
    /\ tmReq.pc = "polling"
    /\ IF ReadyCases(tmReq) = {}
       THEN tmReq' = [tmReq EXCEPT !.pc = "parked"]
       ELSE \E c \in ReadyCases(tmReq) :
               tmReq' = [tmReq EXCEPT !.pc = c,
                                      !.raced = Cardinality(ReadyCases(tmReq)) > 1]
    /\ UNCHANGED <<tmLog, tmCrashed, notTimeout>>

\* what the log keeps of a request the decorator returns from
Returned(req) == [behaviour |-> req.behaviour, first |-> req.first,
                  writes |-> req.writes, aborted |-> req.aborted, raced |-> req.raced,
                  down |-> req.down]

\* case <-done: return
CaseDone ==
    /\ InTimeout
    /\ tmReq.pc = "case done"
    /\ tmLog' = Append(tmLog, Returned(tmReq))
    /\ tmReq' = Idle
    /\ UNCHANGED <<tmCrashed, notTimeout>>

\* case <-time.After(timeout): WriteHeader(504), Write, ctx.Abort()
CaseTimer ==
    /\ InTimeout
    /\ tmReq.pc = "case timer"
    /\ tmLog' = Append(tmLog, Returned(
                   [tmReq EXCEPT !.writes = @ \o <<WriteOf("Timeout", "status", StatusGatewayTimeout),
                                                  WriteOf("Timeout", "body", "Gateway Timeout")>>,
                                 !.aborted = TRUE]))
    /\ tmReq' = Idle
    /\ UNCHANGED <<tmCrashed, notTimeout>>

\* the goroutine of a request the decorator has returned from is not
\* cancelled: next(ctx) goes on and writes its response
LateDownstreamWrite ==
    /\ ~tmCrashed
    /\ \E i \in 1..Len(tmLog) :
          /\ tmLog[i].down = "running"
          /\ \A k \in 1..Len(tmLog[i].writes) : tmLog[i].writes[k].by # "downstream"
          /\ tmLog' = [tmLog EXCEPT ![i].writes = Append(@, WriteOf("downstream", "status", 200))]
    /\ UNCHANGED <<tmReq, tmCrashed, notTimeout>>

\* and it ends: next(ctx) returns and close(done), or panics
LateDownstreamEnd ==
    /\ ~tmCrashed
    /\ \E i \in 1..Len(tmLog) :
          /\ tmLog[i].down = "running"
          /\ tmLog[i].behaviour # "hangs"
          /\ tmLog' = [tmLog EXCEPT ![i].down =
                           IF tmLog[i].behaviour = "panics" THEN "panicked" ELSE "returned"]
          /\ tmCrashed' = (tmLog[i].behaviour = "panics")
    /\ UNCHANGED <<tmReq, notTimeout>>

TimeoutNext ==
    \/ TimeoutCall
    \/ DownstreamWrite
    \/ DownstreamReturn
    \/ DownstreamPanic
    \/ SelectEnter
    \/ DeadlineExpires
    \/ SelectPoll
    \/ CaseDone
    \/ CaseTimer
    \/ LateDownstreamWrite
    \/ LateDownstreamEnd

\* what the decorator itself wrote to the response
TimeoutWrites(e) == SelectSeq(e.writes, LAMBDA w : w.by = "Timeout")

\* the downstream handler completed before the deadline, and the decorator
\* wrote nothing and did not abort
CompletedInTime(e) ==
    /\ e.first = "completed"
    /\ TimeoutWrites(e) = <<>>
    /\ ~e.aborted

\* the deadline expired first, and the decorator wrote 504 and aborted
TimedOut(e) ==
    /\ e.first = "deadline"
    /\ Len(TimeoutWrites(e)) > 0
    /\ TimeoutWrites(e)[1].what = StatusGatewayTimeout
    /\ e.aborted

ExactlyOneOutcome(e) == CompletedInTime(e) # TimedOut(e)

\* C30: every request through Timeout(d) has exactly one of two outcomes:
\* the downstream handler completes before the deadline and Timeout writes
\* nothing and does not abort, or the deadline expires first and Timeout
\* writes 504 and aborts.
C30_TimeoutOutcomes ==
    /\ ~tmCrashed
    /\ \A i \in 1..Len(tmLog) : ExactlyOneOutcome(tmLog[i])

\* the same, for the requests the decorator returned from whose select did
\* not find both cases ready
C30_WhenOneCaseReady ==
    \A i \in 1..Len(tmLog) : ~tmLog[i].raced => ExactlyOneOutcome(tmLog[i])

\* the responses of the requests that went through the decorator
TimeoutResponses ==
    { tmLog[i] : i \in 1..Len(tmLog) } \cup (IF tmReq.pc = "idle" THEN {} ELSE {tmReq})

\* the writes of a status
StatusWrites(e) == SelectSeq(e.writes, LAMBDA w : w.kind = "status")

\* C31: once a middleware has committed the response and set the abort
\* flag, nothing writes to that response afterwards, and a response's
\* status is written at most once; after Timeout's 504 the downstream
\* handler that is still running does not write.
C31_NoWriteAfterAbort ==
    \A e \in TimeoutResponses :
       /\ \A i, j \in 1..Len(e.writes) :
             (i < j /\ e.writes[i].by = "Timeout") => e.writes[j].by = "Timeout"
       /\ Len(StatusWrites(e)) <= 1

(***************************************************************************)
(* The runtime fields of one target, access by access.  Request handlers   *)
(* (proxyHandler) select a target, then call IncrementActiveConns and the  *)
(* deferred DecrementActiveConns; the health checker's goroutine runs      *)
(* updateTargetStatus after each probe.  u.mu is the upstream's mutex; the *)
(* history fdWrites records, for every write, who wrote which field and    *)
(* whether the writer held u.mu.                                           *)
(***************************************************************************)
MaxFieldProbes == 2

FieldReqs == {"r1", "r2"}

FieldCheck == [HealthyThreshold |-> 2, UnhealthyThreshold |-> 1]

FieldWrite(by, field) == [by |-> by, field |-> field, locked |-> fdMu = by]

FieldsInit ==
    /\ fdMu = "none"
    /\ fdPc = [r \in FieldReqs |-> "start"]
    /\ fdHc = [pc |-> "idle", healthy |-> TRUE, probes |-> 0, to |-> "unknown"]
    /\ fdTarget = [Status |-> "healthy", FailCount |-> 0, ActiveConns |-> 0,
                   LastCheckAt |-> 0, LastFailAt |-> 0]
    /\ fdWrites = {}

FieldsOff ==
    /\ fdMu = "off"
    /\ fdPc = <<>>
    /\ fdHc = <<>>
    /\ fdTarget = <<>>
    /\ fdWrites = {}

InFields == fdMu # "off"

\* balancer.Select: GetHealthyTargets reads Status under the read lock, and a
\* least-connections balancer then reads ActiveConns with no lock held
ReqSelect(r) ==
    /\ InFields /\ UNCHANGED notFields /\ fdPc[r] = "start" /\ fdMu = "none"
    /\ fdPc' = [fdPc EXCEPT ![r] = IF fdTarget.Status = "healthy" THEN "selected" ELSE "done"]
    /\ UNCHANGED <<fdMu, fdHc, fdTarget, fdWrites>>

ReqIncLock(r) ==
    /\ InFields /\ UNCHANGED notFields /\ fdPc[r] = "selected" /\ fdMu = "none"
    /\ fdMu' = r
    /\ fdPc' = [fdPc EXCEPT ![r] = "inc"]
    /\ UNCHANGED <<fdHc, fdTarget, fdWrites>>

ReqIncWrite(r) ==
    /\ InFields /\ UNCHANGED notFields /\ fdPc[r] = "inc"
    /\ fdTarget' = [fdTarget EXCEPT !.ActiveConns = @ + 1]
    /\ fdWrites' = fdWrites \cup {FieldWrite(r, "ActiveConns")}
    /\ fdMu' = "none"
    /\ fdPc' = [fdPc EXCEPT ![r] = "proxy"]
    /\ UNCHANGED fdHc

ReqDecLock(r) ==
    /\ InFields /\ UNCHANGED notFields /\ fdPc[r] = "proxy" /\ fdMu = "none"
    /\ fdMu' = r
    /\ fdPc' = [fdPc EXCEPT ![r] = "dec"]
    /\ UNCHANGED <<fdHc, fdTarget, fdWrites>>

ReqDecWrite(r) ==
    /\ InFields /\ UNCHANGED notFields /\ fdPc[r] = "dec"
    /\ IF fdTarget.ActiveConns > 0
          THEN /\ fdTarget' = [fdTarget EXCEPT !.ActiveConns = @ - 1]
               /\ fdWrites' = fdWrites \cup {FieldWrite(r, "ActiveConns")}
          ELSE UNCHANGED <<fdTarget, fdWrites>>
    /\ fdMu' = "none"
    /\ fdPc' = [fdPc EXCEPT ![r] = "done"]
    /\ UNCHANGED fdHc

\* checkTarget returns and updateTargetStatus is entered with its result
HcProbed ==
    /\ InFields /\ UNCHANGED notFields /\ fdHc.pc = "idle" /\ fdHc.probes < MaxFieldProbes
    /\ \E healthy \in BOOLEAN :
          fdHc' = [fdHc EXCEPT !.pc = "stamp", !.healthy = healthy, !.probes = @ + 1]
    /\ UNCHANGED <<fdMu, fdPc, fdTarget, fdWrites>>

\* target.LastCheckAt = time.Now()
HcStamp ==
    /\ InFields /\ UNCHANGED notFields /\ fdHc.pc = "stamp"
    /\ fdTarget' = [fdTarget EXCEPT !.LastCheckAt = fdHc.probes]
    /\ fdWrites' = fdWrites \cup {FieldWrite("hc", "LastCheckAt")}
    /\ fdHc' = [fdHc EXCEPT !.pc = "count"]
    /\ UNCHANGED <<fdMu, fdPc>>

\* the branch on healthy: the writes of FailCount and LastFailAt, and the
\* decision to call upstream.UpdateTargetStatus
HcCount ==
    /\ InFields /\ UNCHANGED notFields /\ fdHc.pc = "count"
    /\ IF fdHc.healthy
          THEN LET turns == fdTarget.Status # "healthy" /\ 0 <= -FieldCheck.HealthyThreshold
               IN  /\ fdTarget' = [fdTarget EXCEPT !.FailCount =
                                      IF fdTarget.Status # "healthy" /\ ~turns THEN -1 ELSE 0]
                   /\ fdWrites' = fdWrites \cup {FieldWrite("hc", "FailCount")}
                   /\ fdHc' = [fdHc EXCEPT !.pc = IF turns THEN "lock" ELSE "idle",
                                           !.to = "healthy"]
          ELSE LET n == fdTarget.FailCount + 1
                   turns == fdTarget.Status # "unhealthy" /\ n >= FieldCheck.UnhealthyThreshold
               IN  /\ fdTarget' = [fdTarget EXCEPT !.FailCount = n, !.LastFailAt = fdHc.probes]
                   /\ fdWrites' = fdWrites \cup {FieldWrite("hc", "FailCount"),
                                                 FieldWrite("hc", "LastFailAt")}
                   /\ fdHc' = [fdHc EXCEPT !.pc = IF turns THEN "lock" ELSE "idle",
                                           !.to = "unhealthy"]
    /\ UNCHANGED <<fdMu, fdPc>>

\* upstream.UpdateTargetStatus: u.mu.Lock()
HcLock ==
    /\ InFields /\ UNCHANGED notFields /\ fdHc.pc = "lock" /\ fdMu = "none"
    /\ fdMu' = "hc"
    /\ fdHc' = [fdHc EXCEPT !.pc = "status"]
    /\ UNCHANGED <<fdPc, fdTarget, fdWrites>>

\* ... target.Status = status; target.LastCheckAt = time.Now(); Unlock
HcStatus ==
    /\ InFields /\ UNCHANGED notFields /\ fdHc.pc = "status"
    /\ fdTarget' = [fdTarget EXCEPT !.Status = fdHc.to, !.LastCheckAt = fdHc.probes]
    /\ fdWrites' = fdWrites \cup {FieldWrite("hc", "Status"), FieldWrite("hc", "LastCheckAt")}
    /\ fdMu' = "none"
    /\ fdHc' = [fdHc EXCEPT !.pc = "idle"]
    /\ UNCHANGED fdPc

FieldsNext ==
    \/ \E r \in FieldReqs : ReqSelect(r)
    \/ \E r \in FieldReqs : ReqIncLock(r)
    \/ \E r \in FieldReqs : ReqIncWrite(r)
    \/ \E r \in FieldReqs : ReqDecLock(r)
    \/ \E r \in FieldReqs : ReqDecWrite(r)
    \/ HcProbed
    \/ HcStamp
    \/ HcCount
    \/ HcLock
    \/ HcStatus

\* the accesses a goroutine makes in its next step
AccessOf(field, write, locked) == [field |-> field, write |-> write, locked |-> locked]

NextAccesses(g) ==
    IF g = "hc"
    THEN CASE fdHc.pc = "stamp"  -> {AccessOf("LastCheckAt", TRUE, FALSE)}
           [] fdHc.pc = "count"  -> {AccessOf("FailCount", TRUE, FALSE),
                                     AccessOf("Status", FALSE, FALSE)}
                                    \cup (IF fdHc.healthy THEN {}
                                          ELSE {AccessOf("LastFailAt", TRUE, FALSE)})
           [] fdHc.pc = "status" -> {AccessOf("Status", TRUE, TRUE),
                                     AccessOf("LastCheckAt", TRUE, TRUE)}
           [] OTHER -> {}
    ELSE CASE fdPc[g] = "start" -> {AccessOf("Status", FALSE, TRUE),
                                    AccessOf("ActiveConns", FALSE, FALSE)}
           [] fdPc[g] = "inc"   -> {AccessOf("ActiveConns", TRUE, TRUE)}
           [] fdPc[g] = "dec"   -> {AccessOf("ActiveConns", TRUE, TRUE)}
           [] OTHER -> {}

RacingWrite ==
    \E g1, g2 \in FieldReqs \cup {"hc"} :
       /\ g1 # g2
       /\ \E a1 \in NextAccesses(g1), a2 \in NextAccesses(g2) :
             a1.field = a2.field /\ a1.write /\ ~a1.locked

\* C33: every write to a runtime field of a target (Status, FailCount,
\* LastCheckAt, LastFailAt, ActiveConns), by a request handler or by the health
\* checker, is made while the writer holds the upstream's mutex, and no two
\* goroutines are about to access the same field when one of the accesses
\* is an unsynchronized write.
C33_RuntimeWritesLocked ==
    InFields => (\A w \in fdWrites : w.locked) /\ ~RacingWrite

(***************************************************************************)
(* Upstream.Validate, applied to upstreams as FromJSON can decode them:    *)
(* any string for id, type and status, any int for the numbers, a missing  *)
(* health_check block (nil).                                               *)
(***************************************************************************)
NilHealthCheck == [nil |-> TRUE]

ValidateIDs == {"", "u1"}

ValidateTypes == {LoadBalanceRoundRobin, LoadBalanceLeastConn, "sticky"}

ValidateAddresses == {"", "10.0.0.1:80"}

ValidateWeights == {-1, 0, 1, 100, 101}

ValidateStatuses == {"", TargetStatusHealthy, TargetStatusUnhealthy, "draining"}

ValidateInts == {-1, 0, 4}

ValidateTargets ==
    { [Address |-> a, Weight |-> w, Status |-> s] :
         a \in ValidateAddresses, w \in ValidateWeights, s \in ValidateStatuses }

ValidateHealthChecks ==
    {NilHealthCheck} \cup
    { [nil |-> FALSE, Enabled |-> en, Interval |-> i, Timeout |-> t,
       HealthyThreshold |-> h, UnhealthyThreshold |-> u] :
         en \in BOOLEAN, i \in ValidateInts, t \in ValidateInts,
         h \in {-1, 0, 1}, u \in {-1, 0, 1} }

ValidateInputs ==
    { [ID |-> id, Type |-> ty, Targets |-> ts, HealthCheck |-> hc] :
         id \in ValidateIDs, ty \in ValidateTypes,
         ts \in {<<>>} \cup { <<t>> : t \in ValidateTargets }
                \cup { <<t, [t EXCEPT !.Weight = 1, !.Status = TargetStatusHealthy]>> :
                          t \in ValidateTargets },
         hc \in ValidateHealthChecks }

\* the loop over u.Targets: it returns at the first empty address, and the
\* targets before that one have already been given their defaults
RECURSIVE ValidateTargetList(_, _)
ValidateTargetList(ts, i) ==
    IF i > Len(ts) THEN [err |-> NoError, targets |-> ts]
    ELSE IF ts[i].Address = "" THEN [err |-> "target address cannot be empty", targets |-> ts]
    ELSE ValidateTargetList(
            [ts EXCEPT ![i] = [@ EXCEPT !.Weight = IF @ < 1 THEN 1 ELSE @,
                                        !.Status = IF @ = "" THEN TargetStatusUnknown ELSE @]],
            i + 1)

HealthCheckDefaults(hc) ==
    IF hc.nil \/ ~hc.Enabled THEN hc
    ELSE [hc EXCEPT !.Interval = IF @ = 0 THEN 10 ELSE @,
                    !.Timeout = IF @ = 0 THEN 5 ELSE @,
                    !.HealthyThreshold = IF @ = 0 THEN 2 ELSE @,
                    !.UnhealthyThreshold = IF @ = 0 THEN 3 ELSE @]

UpstreamValidate(u) ==
    IF u.ID = "" THEN [err |-> "upstream id cannot be empty", u |-> u]
    ELSE IF Len(u.Targets) = 0
         THEN [err |-> "upstream must have at least one target", u |-> u]
    ELSE IF u.Type \notin Policies THEN [err |-> "invalid load balance type", u |-> u]
    ELSE LET r == ValidateTargetList(u.Targets, 1)
         IN  IF r.err # NoError THEN [err |-> r.err, u |-> [u EXCEPT !.Targets = r.targets]]
             ELSE [err |-> NoError,
                   u |-> [u EXCEPT !.Targets = r.targets,
                                   !.HealthCheck = HealthCheckDefaults(@)]]

NotValidated == [err |-> "not called"]

UValidateInit ==
    /\ uvIn \in ValidateInputs
    /\ uvOut = NotValidated

UValidateOff ==
    /\ uvIn = <<>>
    /\ uvOut = <<>>

ValidateCall ==
    /\ uvOut = NotValidated
    /\ uvOut' = UpstreamValidate(uvIn)
    /\ UNCHANGED <<uvIn, notUValidate>>

UValidateNext == ValidateCall

PassedValidate == uvOut # <<>> /\ uvOut.err = NoError

\* C34: an upstream that passed Validate and has health checking enabled has
\* strictly positive interval, timeout, healthy_threshold and
\* unhealthy_threshold, and each of its targets has a weight in 1..100 and a
\* status among healthy, unhealthy, unknown.
C34_ValidatedUpstreamInRange ==
    (PassedValidate /\ ~uvOut.u.HealthCheck.nil /\ uvOut.u.HealthCheck.Enabled)
    => /\ uvOut.u.HealthCheck.Interval > 0
       /\ uvOut.u.HealthCheck.Timeout > 0
       /\ uvOut.u.HealthCheck.HealthyThreshold > 0
       /\ uvOut.u.HealthCheck.UnhealthyThreshold > 0
       /\ \A i \in 1..Len(uvOut.u.Targets) :
             /\ uvOut.u.Targets[i].Weight \in 1..100
             /\ uvOut.u.Targets[i].Status \in
                   {TargetStatusHealthy, TargetStatusUnhealthy, TargetStatusUnknown}

\* what does hold of an upstream that passed Validate: a non-empty id, a known
\* type, at least one target, every target with an address, a weight of at
\* least 1 and a non-empty status, and no zero among the four numbers of an
\* enabled health check
C34_WhatValidateEnsures ==
    PassedValidate
    => /\ uvOut.u.ID # "" /\ uvOut.u.Type \in Policies /\ Len(uvOut.u.Targets) > 0
       /\ \A i \in 1..Len(uvOut.u.Targets) :
             /\ uvOut.u.Targets[i].Address # ""
             /\ uvOut.u.Targets[i].Weight >= 1
             /\ uvOut.u.Targets[i].Status # ""
       /\ (~uvOut.u.HealthCheck.nil /\ uvOut.u.HealthCheck.Enabled)
          => /\ uvOut.u.HealthCheck.Interval # 0
             /\ uvOut.u.HealthCheck.Timeout # 0
             /\ uvOut.u.HealthCheck.HealthyThreshold # 0
             /\ uvOut.u.HealthCheck.UnhealthyThreshold # 0

\* the request in flight holds the Upstream object o (it got it from
\* GetUpstream and has not left proxyHandler)
RequestHolds(o) ==
    gwReq.pc \in {"handler", "proxy"} /\ gwReq.upstream.object = o

CountersZero(targets) ==
    \A i \in 1..Len(targets) : targets[i].ActiveConns = 0 /\ targets[i].FailCount = 0

Counters(targets) ==
    [i \in 1..Len(targets) |-> <<targets[i].ActiveConns, targets[i].FailCount>>]

\* the watcher's write of a put completes for an id the registry already holds
ReplacesUpstream ==
    /\ gwWatch.pc = "writing" /\ gwWatch.type = "put"
    /\ gwWatch'.pc = "idle"
    /\ gwWatch.key \in DOMAIN gwUpstreams

\* C35: when the watcher applies a put for an upstream id already in the
\* registry, the entry becomes the newly decoded Upstream object, another
\* object than the one it replaces, whose targets have active_conns = 0 and
\* fail_count = 0 unless a request already holds the new object; and in every
\* step, the counters of an Upstream object (in the registry or decoded and
\* about to be stored) change only when the request in flight holds that very
\* object, so a request in flight on the old object leaves the new one alone.
C35_ReplacedUpstreamStartsFresh ==
    [][/\ ReplacesUpstream
          => /\ gwUpstreams'[gwWatch.key] = gwWatch.upstream
             /\ gwWatch.upstream.object # gwUpstreams[gwWatch.key].object
             /\ RequestHolds(gwWatch.upstream.object)
                \/ CountersZero(gwUpstreams'[gwWatch.key].Targets)
       /\ (gwWatch.pc = "idle" /\ gwWatch'.pc = "writing" /\ gwWatch'.type = "put")
          => /\ CountersZero(gwWatch'.upstream.Targets)
             /\ \A key \in DOMAIN gwUpstreams :
                   gwUpstreams[key].object # gwWatch'.upstream.object
       /\ \A key \in DOMAIN gwUpstreams \cap DOMAIN gwUpstreams' :
             (/\ gwUpstreams'[key].object = gwUpstreams[key].object
              /\ Counters(gwUpstreams'[key].Targets) # Counters(gwUpstreams[key].Targets))
             => RequestHolds(gwUpstreams[key].object)
       /\ (/\ gwWatch.pc = "writing" /\ gwWatch.type = "put" /\ gwWatch'.pc = "writing"
           /\ Counters(gwWatch'.upstream.Targets) # Counters(gwWatch.upstream.Targets))
          => RequestHolds(gwWatch.upstream.object)
      ]_vars

\* a request is in flight on the object that a put has replaced in the
\* registry: its connection is counted on the old object, not on the new one
C35_Witness ==
    /\ gwReq.pc = "proxy"
    /\ gwReq.route.UpstreamID \in DOMAIN gwUpstreams
    /\ gwUpstreams[gwReq.route.UpstreamID].object # gwReq.upstream.object
    /\ gwUpstreams[gwReq.route.UpstreamID].ID = gwReq.upstream.ID
    /\ \E i \in 1..Len(gwReq.upstream.Targets) : gwReq.upstream.Targets[i].ActiveConns = 1
    /\ CountersZero(gwUpstreams[gwReq.route.UpstreamID].Targets)

(***************************************************************************)
(* The store under /gateway/routes/ changing while the watcher starts and  *)
(* runs: Start reads the store with one Get, loads the table, and only     *)
(* then starts watchRoutes, whose client.Watch carries no revision and so  *)
(* delivers the changes made after the watch was created.  No watch error. *)
(***************************************************************************)
MaxStoreWrites == 2

MirrorKeys == <<"r1", "r2">>

Absent == [absent |-> TRUE]

\* the values a key may hold: two versions of the route with the key's id,
\* and bytes that are not a route
MirrorValues(key) ==
    { Raw(MkRoute(key, 1, RouteStatusEnabled, Pred(P_a, PathTypePrefix), "u1")),
      Raw(MkRoute(key, 2, RouteStatusEnabled, Pred(P_ax, PathTypePrefix), "u1")),
      Undecodable }

\* the Kvs of a Get with the prefix: the keys present, in key order
RECURSIVE KvsFrom(_, _)
KvsFrom(store, i) ==
    IF i > Len(MirrorKeys) THEN <<>>
    ELSE (IF store[MirrorKeys[i]] = Absent THEN <<>>
          ELSE <<[key |-> MirrorKeys[i], value |-> store[MirrorKeys[i]]]>>)
         \o KvsFrom(store, i + 1)

MirrorInit ==
    /\ miStore \in [Range(MirrorKeys) -> {Absent, Undecodable}]
                   \cup { [k \in Range(MirrorKeys) |->
                             IF k \in present
                             THEN Raw(MkRoute(k, 1, RouteStatusEnabled,
                                              Pred(P_a, PathTypePrefix), "u1"))
                             ELSE Absent] : present \in SUBSET Range(MirrorKeys) }
    /\ miPc = "new"
    /\ miQueue = <<>>
    /\ miTable = EmptyTable
    /\ miHist = [writes |-> 0, gap |-> FALSE, stale |-> FALSE]

MirrorOff ==
    /\ miStore = <<>>
    /\ miPc = "off"
    /\ miQueue = <<>>
    /\ miTable = EmptyTable
    /\ miHist = <<>>

\* a watch created before the change delivers it
Delivered(event) == IF miPc = "watching" THEN Append(miQueue, event) ELSE miQueue

\* somebody puts a value under a key of the prefix
StorePut ==
    /\ miPc # "off" /\ miHist.writes < MaxStoreWrites
    /\ \E i \in 1..Len(MirrorKeys) : \E value \in MirrorValues(MirrorKeys[i]) :
          /\ miStore' = [miStore EXCEPT ![MirrorKeys[i]] = value]
          /\ miQueue' = Delivered(PutEvent(MirrorKeys[i], value))
          /\ miHist' = [writes |-> miHist.writes + 1,
                        gap |-> miHist.gap \/ miPc = "loaded",
                        stale |-> miHist.stale
                                  \/ (miStore[MirrorKeys[i]] # Absent
                                      /\ RouteFromJSONErr(value) # NoError)]
    /\ UNCHANGED <<miPc, miTable, notMirror>>

\* somebody deletes a key of the prefix
StoreDelete ==
    /\ miPc # "off" /\ miHist.writes < MaxStoreWrites
    /\ \E i \in 1..Len(MirrorKeys) :
          /\ miStore[MirrorKeys[i]] # Absent
          /\ miStore' = [miStore EXCEPT ![MirrorKeys[i]] = Absent]
          /\ miQueue' = Delivered(DeleteEvent(MirrorKeys[i]))
          /\ miHist' = [miHist EXCEPT !.writes = @ + 1,
                                      !.gap = @ \/ miPc = "loaded"]
    /\ UNCHANGED <<miPc, miTable, notMirror>>

\* Start: loadAllConfigs reads the routes with one Get and loads the table
MirrorLoad ==
    /\ miPc = "new"
    /\ miTable' \in LoadRoutesResult(loadRoutes(KvsFrom(miStore, 1)))
    /\ miPc' = "loaded"
    /\ UNCHANGED <<miStore, miQueue, miHist, notMirror>>

\* Start: go w.watchRoutes(), whose first statement creates the watch
MirrorWatch ==
    /\ miPc = "loaded"
    /\ miPc' = "watching"
    /\ UNCHANGED <<miStore, miQueue, miTable, miHist, notMirror>>

\* watchRoutes receives the next event and handleRouteEvent applies it
MirrorApply ==
    /\ miPc = "watching" /\ miQueue # <<>>
    /\ miTable' \in ApplyRouteEvent(miTable, Head(miQueue))
    /\ miQueue' = Tail(miQueue)
    /\ UNCHANGED <<miStore, miPc, miHist, notMirror>>

MirrorNext ==
    \/ StorePut
    \/ StoreDelete
    \/ MirrorLoad
    \/ MirrorWatch
    \/ MirrorApply

\* the keys that hold a valid route whose id is the key
ValidRouteKeys ==
    { k \in Range(MirrorKeys) :
         /\ miStore[k] # Absent
         /\ RouteFromJSONErr(miStore[k]) = NoError
         /\ miStore[k].value.ID = k }

\* the watcher has applied every event delivered to it
AllApplied == miPc = "watching" /\ miQueue = <<>>

\* C36: once the watcher has applied every event delivered to it, the ids of
\* the route table are the keys under /gateway/routes/ that hold a valid
\* route, whatever changes the store went through, those between the initial
\* load and the start of the watch included.
C36_TableMirrorsStore ==
    AllApplied => IDsOf(miTable.routes) = ValidRouteKeys

\* the same when no change of the store fell between the load and the start
\* of the watch, and no key that held a value was overwritten with bytes
\* that are not a route
C36_WhenNothingMissed ==
    (AllApplied /\ ~miHist.gap /\ ~miHist.stale) => IDsOf(miTable.routes) = ValidRouteKeys

\* C38: the target whose active_conns the dispatcher increments for a
\* request, and later decrements, is the target that the balancer's Select
\* returned for that request, for every validated upstream, one with two
\* targets of the same address included.
C38_CountsOnSelectedTarget ==
    /\ dReq.pc = "proxy" => dReq.counted = dReq.selected
    /\ (dReq.pc = "done" /\ dReq.status = 200) => dReq.released = dReq.selected

\* the same for the upstreams whose targets all have different addresses
C38_WhenAddressesDiffer ==
    (\A i, j \in 1..Len(dUp.Targets) :
        i # j => dUp.Targets[i].Address # dUp.Targets[j].Address)
    => C38_CountsOnSelectedTarget

(***************************************************************************)
(* The RouterManager of internal/router: InitRouter calls updateRoutes     *)
(* before the server listens; every request calls getRoute, which takes    *)
(* rm.mu for reading and calls updateRoutes, which takes rm.mu for         *)
(* writing.  sync.RWMutex: Lock waits until no reader and no writer holds  *)
(* the mutex, and RLock waits while a writer holds it or waits for it.     *)
(***************************************************************************)
LegacyPaths == {"/a", "/b"}

LegacyHandlers == {"h1", "h2"}

LegacyGoroutines == {"init"} \cup LegacyHandlers

NotAsked == "-"

LegacyInit ==
    /\ lgCfg \in SUBSET LegacyPaths
    /\ lgRoutes = {}
    /\ lgReaders = {}
    /\ lgWriter = "none"
    /\ lgPc = [g \in LegacyGoroutines |->
                  [pc |-> IF g = "init" THEN "new" ELSE "idle", path |-> NotAsked, built |-> {}]]

LegacyOff ==
    /\ lgCfg = {}
    /\ lgRoutes = {}
    /\ lgReaders = {}
    /\ lgWriter = "off"
    /\ lgPc = <<>>

InLegacy == lgWriter # "off"

WriterWaiting == \E g \in LegacyGoroutines : lgPc[g].pc = "waitlock"

\* the configuration file is rewritten and loadConfig swaps currentConfig
ConfigReload ==
    /\ InLegacy
    /\ \E cfg \in SUBSET LegacyPaths : cfg # lgCfg /\ lgCfg' = cfg
    /\ UNCHANGED <<lgRoutes, lgReaders, lgWriter, lgPc, notLegacy>>

\* HandleRequest calls getRoute(r.URL.Path): rm.mu.RLock() returns
GetRouteRLock(g) ==
    /\ InLegacy
    /\ lgPc["init"].pc = "done"
    /\ lgPc[g].pc = "idle"
    /\ lgWriter = "none" /\ ~WriterWaiting
    /\ \E path \in LegacyPaths :
          lgPc' = [lgPc EXCEPT ![g] = [pc |-> "rlocked", path |-> path, built |-> {}]]
    /\ lgReaders' = lgReaders \cup {g}
    /\ UNCHANGED <<lgCfg, lgRoutes, lgWriter, notLegacy>>

\* updateRoutes, called by InitRouter or by getRoute: the loop that builds
\* newRoutes from config.GetRoutes()
UpdateRoutesBuild(g) ==
    /\ InLegacy
    /\ lgPc[g].pc = (IF g = "init" THEN "new" ELSE "rlocked")
    /\ lgPc' = [lgPc EXCEPT ![g].pc = "built", ![g].built = lgCfg]
    /\ UNCHANGED <<lgCfg, lgRoutes, lgReaders, lgWriter, notLegacy>>

\* updateRoutes: rm.mu.Lock() is called
UpdateRoutesLock(g) ==
    /\ InLegacy
    /\ lgPc[g].pc = "built"
    /\ lgPc' = [lgPc EXCEPT ![g].pc = "waitlock"]
    /\ UNCHANGED <<lgCfg, lgRoutes, lgReaders, lgWriter, notLegacy>>

\* rm.mu.Lock() returns: no reader and no writer holds the mutex
UpdateRoutesLocked(g) ==
    /\ InLegacy
    /\ lgPc[g].pc = "waitlock"
    /\ lgReaders = {} /\ lgWriter = "none"
    /\ lgWriter' = g
    /\ lgPc' = [lgPc EXCEPT ![g].pc = "writing"]
    /\ UNCHANGED <<lgCfg, lgRoutes, lgReaders, notLegacy>>

\* rm.routes = newRoutes; rm.mu.Unlock(); updateRoutes returns, to InitRouter
\* or to getRoute, which looks the path up, returns, and its deferred
\* rm.mu.RUnlock() runs
UpdateRoutesStore(g) ==
    /\ InLegacy
    /\ lgPc[g].pc = "writing"
    /\ lgRoutes' = lgPc[g].built
    /\ lgWriter' = "none"
    /\ lgReaders' = lgReaders \ {g}
    /\ lgPc' = [lgPc EXCEPT ![g] =
                   IF g = "init" THEN [@ EXCEPT !.pc = "done"]
                   ELSE [pc |-> "idle", path |-> @.path, built |-> {},
                         found |-> @.path \in lgPc[g].built]]
    /\ UNCHANGED <<lgCfg, notLegacy>>

LegacyNext ==
    \/ ConfigReload
    \/ \E g \in LegacyHandlers : GetRouteRLock(g)
    \/ \E g \in LegacyGoroutines : UpdateRoutesBuild(g)
    \/ \E g \in LegacyGoroutines : UpdateRoutesLock(g)
    \/ \E g \in LegacyGoroutines : UpdateRoutesLocked(g)
    \/ \E g \in LegacyGoroutines : UpdateRoutesStore(g)

\* C39: in the RouterManager, no goroutine waits for the write lock of rm.mu
\* while it holds the read lock itself, so that every getRoute, and with it
\* every HandleRequest, comes to its return.
C39_NoLockUpgradeWait ==
    InLegacy => \A g \in LegacyGoroutines : lgPc[g].pc = "waitlock" => g \notin lgReaders

\* what the wait means: no call of getRoute ever comes to its return
C39_NoGetRouteReturns ==
    InLegacy => \A g \in LegacyHandlers : "found" \notin DOMAIN lgPc[g]

(***************************************************************************)
(* The goroutines of the health checker: runHealthCheckLoop, started once  *)
(* by Start, calls checkAllUpstreams on every tick; checkAllUpstreams      *)
(* copies the registered upstreams, starts one goroutine of checkUpstream  *)
(* for each that has its check enabled, and waits for all of them.         *)
(* AddUpstream and RemoveUpstream change the registry at any time.         *)
(***************************************************************************)
MaxSweeps == 2

SweepIDs == {"u1", "u2"}

\* Upstream objects: two with the id u1 (one replaces the other), two with
\* the id u2, one of them with its health check disabled
SweepObjects ==
    { [object |-> 1, ID |-> "u1", Enabled |-> TRUE, targets |-> 2],
      [object |-> 2, ID |-> "u2", Enabled |-> TRUE, targets |-> 1],
      [object |-> 3, ID |-> "u1", Enabled |-> TRUE, targets |-> 1],
      [object |-> 4, ID |-> "u2", Enabled |-> FALSE, targets |-> 1] }

NotRegistered == [object |-> 0]

SweepInit ==
    /\ swReg = [id \in SweepIDs |-> NotRegistered]
    /\ swLoop = [pc |-> "select", remaining |-> {}, sweep |-> 0]
    /\ swWg = 0
    /\ swWorkers = {}

SweepOff ==
    /\ swReg = <<>>
    /\ swLoop = [pc |-> "off"]
    /\ swWg = 0
    /\ swWorkers = {}

\* AddUpstream: hc.upstreams[upstream.ID] = upstream
SweepAddUpstream ==
    /\ swLoop.pc # "off"
    /\ \E u \in SweepObjects : swReg[u.ID] # u /\ swReg' = [swReg EXCEPT ![u.ID] = u]
    /\ UNCHANGED <<swLoop, swWg, swWorkers, notSweep>>

\* RemoveUpstream: delete(hc.upstreams, upstreamID)
SweepRemoveUpstream ==
    /\ swLoop.pc # "off"
    /\ \E id \in SweepIDs :
          swReg[id] # NotRegistered /\ swReg' = [swReg EXCEPT ![id] = NotRegistered]
    /\ UNCHANGED <<swLoop, swWg, swWorkers, notSweep>>

\* runHealthCheckLoop receives a tick: checkAllUpstreams copies the map's
\* values under the read lock
SweepTick ==
    /\ swLoop.pc = "select" /\ swLoop.sweep < MaxSweeps
    /\ swLoop' = [pc |-> "range", sweep |-> swLoop.sweep + 1,
                  remaining |-> { swReg[id] : id \in SweepIDs } \ {NotRegistered}]
    /\ UNCHANGED <<swReg, swWg, swWorkers, notSweep>>

\* the loop over the copy, one upstream: continue when health checking is not
\* enabled, else wg.Add(1) and go checkUpstream(u)
SweepSpawn ==
    /\ swLoop.pc = "range"
    /\ \E u \in swLoop.remaining :
          /\ swLoop' = [swLoop EXCEPT !.remaining = @ \ {u}]
          /\ IF u.Enabled
             THEN /\ swWg' = swWg + 1
                  /\ swWorkers' = swWorkers \cup
                        {[u |-> u, k |-> 1, pc |-> "guard", sweep |-> swLoop.sweep]}
             ELSE UNCHANGED <<swWg, swWorkers>>
    /\ UNCHANGED <<swReg, notSweep>>

\* the loop over the copy ends: wg.Wait() is called
SweepWait ==
    /\ swLoop.pc = "range" /\ swLoop.remaining = {}
    /\ swLoop' = [swLoop EXCEPT !.pc = "wait"]
    /\ UNCHANGED <<swReg, swWg, swWorkers, notSweep>>

\* a checkAllUpstreams that returns without waiting for its goroutines
SweepWaitDone_NoWait ==
    /\ swLoop.pc = "wait"
    /\ swLoop' = [swLoop EXCEPT !.pc = "select"]
    /\ UNCHANGED <<swReg, swWg, swWorkers, notSweep>>

\* wg.Wait() returns when the counter is zero; checkAllUpstreams returns and
\* the loop is at its select again
SweepWaitDone ==
    /\ swLoop.pc = "wait" /\ swWg = 0
    /\ swLoop' = [swLoop EXCEPT !.pc = "select"]
    /\ UNCHANGED <<swReg, swWg, swWorkers, notSweep>>

\* the worker after its target k: the next target, or wg.Done() and the end
\* of the goroutine
AfterProbe(w) ==
    IF w.k < w.u.targets THEN {[w EXCEPT !.k = @ + 1, !.pc = "guard"]} ELSE {}

\* checkUpstream at a target: skipped for its LastCheckAt, or checkTarget
\* starts
WorkerGuard ==
    /\ \E w \in swWorkers :
          /\ w.pc = "guard"
          /\ \E skip \in BOOLEAN :
                IF skip
                THEN /\ swWorkers' = (swWorkers \ {w}) \cup AfterProbe(w)
                     /\ swWg' = IF AfterProbe(w) = {} THEN swWg - 1 ELSE swWg
                ELSE /\ swWorkers' = (swWorkers \ {w}) \cup {[w EXCEPT !.pc = "probing"]}
                     /\ swWg' = swWg
    /\ UNCHANGED <<swReg, swLoop, notSweep>>

\* checkTarget returns and updateTargetStatus is entered
WorkerProbed ==
    /\ \E w \in swWorkers :
          /\ w.pc = "probing"
          /\ swWorkers' = (swWorkers \ {w}) \cup {[w EXCEPT !.pc = "updating"]}
    /\ UNCHANGED <<swReg, swLoop, swWg, notSweep>>

\* updateTargetStatus returns
WorkerUpdated ==
    /\ \E w \in swWorkers :
          /\ w.pc = "updating"
          /\ swWorkers' = (swWorkers \ {w}) \cup AfterProbe(w)
          /\ swWg' = IF AfterProbe(w) = {} THEN swWg - 1 ELSE swWg
    /\ UNCHANGED <<swReg, swLoop, notSweep>>

SweepNext ==
    \/ SweepAddUpstream
    \/ SweepRemoveUpstream
    \/ SweepTick
    \/ SweepSpawn
    \/ SweepWait
    \/ SweepWaitDone
    \/ WorkerGuard
    \/ WorkerProbed
    \/ WorkerUpdated

AtTarget(w) == w.pc \in {"probing", "updating"}

\* C40: at most one probe of a target is in progress at any time: the loop
\* is at its select, where the next sweep starts, only when every goroutine
\* of the sweep before has ended; the goroutines that run belong to the
\* current sweep, no two of them to the same Upstream object; and no two are
\* in checkTarget or updateTargetStatus for the same target.
C40_OneProbePerTarget ==
    /\ swLoop.pc = "select" => swWorkers = {} /\ swWg = 0
    /\ \A w \in swWorkers : w.sweep = swLoop.sweep
    /\ \A w1, w2 \in swWorkers :
          w1 # w2
          => /\ w1.u.object # w2.u.object
             /\ ~(AtTarget(w1) /\ AtTarget(w2) /\ w1.u = w2.u /\ w1.k = w2.k)
    /\ swWg = Cardinality(swWorkers)

\* in the second sweep, two goroutines probe targets of two upstreams at the
\* same time
C40_Witness ==
    /\ swLoop.sweep = 2
    /\ \E w1, w2 \in swWorkers :
          w1.u.object # w2.u.object /\ w1.pc = "probing" /\ w2.pc = "updating"

Init == RouterInit /\ BalancerOff /\ ConnsOff /\ HealthOff /\ RegistryOff /\ RouterConcOff /\ DispatchOff /\ GatewayOff /\ MatchOff /\ ChainOff /\ StartOff /\ RepubOff /\ WeightedOff /\ ProbeOff /\ EventsOff /\ LoopsOff /\ TimeoutOff /\ FieldsOff /\ UValidateOff /\ MirrorOff /\ LegacyOff /\ SweepOff

Next == RouterNext

Spec == Init /\ [][Next]_vars

\* the route table written by AddRoute and DeleteRoute alone
UpsertNext ==
    \/ AddRoute
    \/ DeleteRoute
    \/ Match
    \/ GetRoute
    \/ ListRoutes

SpecUpsert == Init /\ [][UpsertNext]_vars

InitBalancer ==
    BalancerInit /\ RouterOff /\ ConnsOff /\ HealthOff /\ RegistryOff /\ RouterConcOff /\ DispatchOff /\ GatewayOff /\ MatchOff /\ ChainOff /\ StartOff /\ RepubOff /\ WeightedOff /\ ProbeOff /\ EventsOff /\ LoopsOff /\ TimeoutOff /\ FieldsOff /\ UValidateOff /\ MirrorOff /\ LegacyOff /\ SweepOff

SpecBalancer == InitBalancer /\ [][BalancerNext]_vars

InitConns ==
    ConnsInit /\ RouterOff /\ BalancerOff /\ HealthOff /\ RegistryOff /\ RouterConcOff /\ DispatchOff /\ GatewayOff /\ MatchOff /\ ChainOff /\ StartOff /\ RepubOff /\ WeightedOff /\ ProbeOff /\ EventsOff /\ LoopsOff /\ TimeoutOff /\ FieldsOff /\ UValidateOff /\ MirrorOff /\ LegacyOff /\ SweepOff

SpecConns == InitConns /\ [][ConnsNext]_vars

InitHealth ==
    HealthInit /\ RouterOff /\ BalancerOff /\ ConnsOff /\ RegistryOff /\ RouterConcOff /\ DispatchOff /\ GatewayOff /\ MatchOff /\ ChainOff /\ StartOff /\ RepubOff /\ WeightedOff /\ ProbeOff /\ EventsOff /\ LoopsOff /\ TimeoutOff /\ FieldsOff /\ UValidateOff /\ MirrorOff /\ LegacyOff /\ SweepOff

SpecHealth == InitHealth /\ [][HealthNext]_vars

InitRegistry ==
    RegistryInit /\ RouterOff /\ BalancerOff /\ ConnsOff /\ HealthOff /\ RouterConcOff /\ DispatchOff /\ GatewayOff /\ MatchOff /\ ChainOff /\ StartOff /\ RepubOff /\ WeightedOff /\ ProbeOff /\ EventsOff /\ LoopsOff /\ TimeoutOff /\ FieldsOff /\ UValidateOff /\ MirrorOff /\ LegacyOff /\ SweepOff

SpecRegistry == InitRegistry /\ [][RegistryNext]_vars

InitRouterConc ==
    RouterConcInit /\ RouterOff /\ BalancerOff /\ ConnsOff /\ HealthOff /\ RegistryOff /\ DispatchOff /\ GatewayOff /\ MatchOff /\ ChainOff /\ StartOff /\ RepubOff /\ WeightedOff /\ ProbeOff /\ EventsOff /\ LoopsOff /\ TimeoutOff /\ FieldsOff /\ UValidateOff /\ MirrorOff /\ LegacyOff /\ SweepOff

SpecRouterConc == InitRouterConc /\ [][RouterConcNext]_vars

InitDispatch ==
    DispatchInit /\ RouterOff /\ BalancerOff /\ ConnsOff /\ HealthOff /\ RegistryOff /\ RouterConcOff /\ GatewayOff /\ MatchOff /\ ChainOff /\ StartOff /\ RepubOff /\ WeightedOff /\ ProbeOff /\ EventsOff /\ LoopsOff /\ TimeoutOff /\ FieldsOff /\ UValidateOff /\ MirrorOff /\ LegacyOff /\ SweepOff

SpecDispatch == InitDispatch /\ [][DispatchNext]_vars

InitGateway ==
    GatewayInit /\ RouterOff /\ BalancerOff /\ ConnsOff /\ HealthOff /\ RegistryOff /\ RouterConcOff /\ DispatchOff /\ MatchOff /\ ChainOff /\ StartOff /\ RepubOff /\ WeightedOff /\ ProbeOff /\ EventsOff /\ LoopsOff /\ TimeoutOff /\ FieldsOff /\ UValidateOff /\ MirrorOff /\ LegacyOff /\ SweepOff

SpecGateway == InitGateway /\ [][GatewayNext]_vars

InitMatch ==
    MatchInit /\ RouterOff /\ BalancerOff /\ ConnsOff /\ HealthOff /\ RegistryOff /\ RouterConcOff /\ DispatchOff /\ GatewayOff /\ ChainOff /\ StartOff /\ RepubOff /\ WeightedOff /\ ProbeOff /\ EventsOff /\ LoopsOff /\ TimeoutOff /\ FieldsOff /\ UValidateOff /\ MirrorOff /\ LegacyOff /\ SweepOff

SpecMatch == InitMatch /\ [][MatchNext]_vars

InitChain ==
    ChainInit /\ RouterOff /\ BalancerOff /\ ConnsOff /\ HealthOff /\ RegistryOff /\ RouterConcOff /\ DispatchOff /\ GatewayOff /\ MatchOff /\ StartOff /\ RepubOff /\ WeightedOff /\ ProbeOff /\ EventsOff /\ LoopsOff /\ TimeoutOff /\ FieldsOff /\ UValidateOff /\ MirrorOff /\ LegacyOff /\ SweepOff

SpecChain == InitChain /\ [][ChainNext]_vars

InitStart ==
    StartInit /\ RouterOff /\ BalancerOff /\ ConnsOff /\ HealthOff /\ RegistryOff /\ RouterConcOff /\ DispatchOff /\ GatewayOff /\ MatchOff /\ ChainOff /\ RepubOff /\ WeightedOff /\ ProbeOff /\ EventsOff /\ LoopsOff /\ TimeoutOff /\ FieldsOff /\ UValidateOff /\ MirrorOff /\ LegacyOff /\ SweepOff

SpecStart == InitStart /\ [][StartNext]_vars

InitRepub ==
    RepubInit /\ RouterOff /\ BalancerOff /\ ConnsOff /\ HealthOff /\ RegistryOff /\ RouterConcOff /\ DispatchOff /\ GatewayOff /\ MatchOff /\ ChainOff /\ StartOff /\ WeightedOff /\ ProbeOff /\ EventsOff /\ LoopsOff /\ TimeoutOff /\ FieldsOff /\ UValidateOff /\ MirrorOff /\ LegacyOff /\ SweepOff

SpecRepub == InitRepub /\ [][RepubNext]_vars

InitWeighted ==
    WeightedInit /\ RouterOff /\ BalancerOff /\ ConnsOff /\ HealthOff /\ RegistryOff /\ RouterConcOff /\ DispatchOff /\ GatewayOff /\ MatchOff /\ ChainOff /\ StartOff /\ RepubOff /\ ProbeOff /\ EventsOff /\ LoopsOff /\ TimeoutOff /\ FieldsOff /\ UValidateOff /\ MirrorOff /\ LegacyOff /\ SweepOff

SpecWeighted == InitWeighted /\ [][WeightedNext]_vars

InitProbe ==
    ProbeInit /\ RouterOff /\ BalancerOff /\ ConnsOff /\ HealthOff /\ RegistryOff /\ RouterConcOff /\ DispatchOff /\ GatewayOff /\ MatchOff /\ ChainOff /\ StartOff /\ RepubOff /\ WeightedOff /\ EventsOff /\ LoopsOff /\ TimeoutOff /\ FieldsOff /\ UValidateOff /\ MirrorOff /\ LegacyOff /\ SweepOff

SpecProbe == InitProbe /\ [][ProbeNext]_vars

InitEvents ==
    EventsInit /\ RouterOff /\ BalancerOff /\ ConnsOff /\ HealthOff /\ RegistryOff /\ RouterConcOff /\ DispatchOff /\ GatewayOff /\ MatchOff /\ ChainOff /\ StartOff /\ RepubOff /\ WeightedOff /\ ProbeOff /\ LoopsOff /\ TimeoutOff /\ FieldsOff /\ UValidateOff /\ MirrorOff /\ LegacyOff /\ SweepOff

SpecEvents == InitEvents /\ [][EventsNext]_vars

InitLoops ==
    LoopsInit /\ RouterOff /\ BalancerOff /\ ConnsOff /\ HealthOff /\ RegistryOff /\ RouterConcOff /\ DispatchOff /\ GatewayOff /\ MatchOff /\ ChainOff /\ StartOff /\ RepubOff /\ WeightedOff /\ ProbeOff /\ EventsOff /\ TimeoutOff /\ FieldsOff /\ UValidateOff /\ MirrorOff /\ LegacyOff /\ SweepOff

SpecLoops == InitLoops /\ [][LoopsNext]_vars

SpecLoopsFair == SpecLoops /\ LoopsFairness

InitTimeout ==
    TimeoutInit /\ RouterOff /\ BalancerOff /\ ConnsOff /\ HealthOff /\ RegistryOff /\ RouterConcOff /\ DispatchOff /\ GatewayOff /\ MatchOff /\ ChainOff /\ StartOff /\ RepubOff /\ WeightedOff /\ ProbeOff /\ EventsOff /\ LoopsOff /\ FieldsOff /\ UValidateOff /\ MirrorOff /\ LegacyOff /\ SweepOff

SpecTimeout == InitTimeout /\ [][TimeoutNext]_vars

InitFields ==
    FieldsInit /\ RouterOff /\ BalancerOff /\ ConnsOff /\ HealthOff /\ RegistryOff /\ RouterConcOff /\ DispatchOff /\ GatewayOff /\ MatchOff /\ ChainOff /\ StartOff /\ RepubOff /\ WeightedOff /\ ProbeOff /\ EventsOff /\ LoopsOff /\ TimeoutOff /\ UValidateOff /\ MirrorOff /\ LegacyOff /\ SweepOff

SpecFields == InitFields /\ [][FieldsNext]_vars

InitUValidate ==
    UValidateInit /\ RouterOff /\ BalancerOff /\ ConnsOff /\ HealthOff /\ RegistryOff /\ RouterConcOff /\ DispatchOff /\ GatewayOff /\ MatchOff /\ ChainOff /\ StartOff /\ RepubOff /\ WeightedOff /\ ProbeOff /\ EventsOff /\ LoopsOff /\ TimeoutOff /\ FieldsOff /\ MirrorOff /\ LegacyOff /\ SweepOff

SpecUValidate == InitUValidate /\ [][UValidateNext]_vars

InitMirror ==
    MirrorInit /\ RouterOff /\ BalancerOff /\ ConnsOff /\ HealthOff /\ RegistryOff /\ RouterConcOff /\ DispatchOff /\ GatewayOff /\ MatchOff /\ ChainOff /\ StartOff /\ RepubOff /\ WeightedOff /\ ProbeOff /\ EventsOff /\ LoopsOff /\ TimeoutOff /\ FieldsOff /\ UValidateOff /\ LegacyOff /\ SweepOff

SpecMirror == InitMirror /\ [][MirrorNext]_vars

InitLegacy ==
    LegacyInit /\ RouterOff /\ BalancerOff /\ ConnsOff /\ HealthOff /\ RegistryOff /\ RouterConcOff /\ DispatchOff /\ GatewayOff /\ MatchOff /\ ChainOff /\ StartOff /\ RepubOff /\ WeightedOff /\ ProbeOff /\ EventsOff /\ LoopsOff /\ TimeoutOff /\ FieldsOff /\ UValidateOff /\ MirrorOff /\ SweepOff

SpecLegacy == InitLegacy /\ [][LegacyNext]_vars

InitSweep ==
    SweepInit /\ RouterOff /\ BalancerOff /\ ConnsOff /\ HealthOff /\ RegistryOff /\ RouterConcOff /\ DispatchOff /\ GatewayOff /\ MatchOff /\ ChainOff /\ StartOff /\ RepubOff /\ WeightedOff /\ ProbeOff /\ EventsOff /\ LoopsOff /\ TimeoutOff /\ FieldsOff /\ UValidateOff /\ MirrorOff /\ LegacyOff

SpecSweep == InitSweep /\ [][SweepNext]_vars
====
